---- MODULE Spec2Model ----
(***************************************************************************)
(* Model of the PL/SQL ingestion core of metazcode:                        *)
(*   - type_mapping.py   : PLSQLDataTypeMapper and                          *)
(*                         detect_column_types_from_sql                     *)
(*   - sql_semantics.py  : EnhancedPlsqlParser (regex and AST extraction)   *)
(*   - plsql_parser.py   : CanonicalPlsqlParser.parse (the generator that   *)
(*                         yields one (nodes, edges) batch per span)        *)
(*                                                                         *)
(* Text is modelled at token level.  A type declaration is a sequence of   *)
(* words, the whitespace between consecutive words ("sp" = one blank,      *)
(* "nl" = a line break) and an optional parenthesised parameter list       *)
(* attached to one of the words.  A source file is a sequence of items     *)
(* (procedure headers and statements).                                     *)
(*                                                                         *)
(* Confidence values are kept in tenths (1.0 = 10, 0.3 = 3).               *)
(***************************************************************************)
EXTENDS Integers, Sequences, FiniteSets, TLC

\* ------------------------------------------------------------------ bounds
MaxPlatforms == 2      \* longest target-platform list that is enumerated
MaxItems == 3          \* longest source file, in items
MaxFiles == 3          \* longest list of discovered files
NumWorkers == 2        \* threads that share one parser

\* ------------------------------------------------------- generic helpers
Range(s) == { s[i] : i \in 1..Len(s) }

Min2(a, b) == IF a <= b THEN a ELSE b

RECURSIVE SetToSeq(_)
SetToSeq(S) ==
    IF S = {} THEN << >>
    ELSE LET x == CHOOSE y \in S : TRUE IN << x >> \o SetToSeq(S \ {x})

RECURSIVE Flatten(_)
Flatten(ss) == IF ss = << >> THEN << >> ELSE Head(ss) \o Flatten(Tail(ss))

SeqsUpTo(S, n) == UNION { [1..k -> S] : k \in 0..n }

\* ======================================================================
\*  type_mapping.py
\* ======================================================================

\* confidence levels of enrich_column_properties, in tenths
ConfFull == 10
ConfUnmappedPlatform == 5
ConfUnknownType == 3
ConfOracleSpecific == 7
ConfLargeLength == 8
LargeLength == 4000

TargetPlatform ==
    { "sql_server", "postgresql", "mysql", "oracle", "snowflake", "bigquery",
      "azure_synapse" }

DefaultPlatforms == << "sql_server", "postgresql", "mysql" >>

\* _build_plsql_canonical_mapping: key (as its words) -> canonical type
PlsqlToCanonical ==
    << "NUMBER" >> :> "DECIMAL" @@ << "INTEGER" >> :> "INTEGER" @@
    << "INT" >> :> "INTEGER" @@ << "SMALLINT" >> :> "SMALLINT" @@
    << "DECIMAL" >> :> "DECIMAL" @@ << "DEC" >> :> "DECIMAL" @@
    << "NUMERIC" >> :> "NUMERIC" @@ << "FLOAT" >> :> "FLOAT" @@
    << "REAL" >> :> "REAL" @@ << "DOUBLE", "PRECISION" >> :> "FLOAT" @@
    << "BINARY_FLOAT" >> :> "REAL" @@ << "BINARY_DOUBLE" >> :> "FLOAT" @@
    << "PLS_INTEGER" >> :> "INTEGER" @@ << "BINARY_INTEGER" >> :> "INTEGER" @@
    << "VARCHAR2" >> :> "VARCHAR" @@ << "VARCHAR" >> :> "VARCHAR" @@
    << "CHAR" >> :> "CHAR" @@ << "NCHAR" >> :> "NCHAR" @@
    << "NVARCHAR2" >> :> "NVARCHAR" @@ << "CLOB" >> :> "CLOB" @@
    << "NCLOB" >> :> "NCLOB" @@ << "LONG" >> :> "TEXT" @@
    << "DATE" >> :> "DATETIME" @@ << "TIMESTAMP" >> :> "TIMESTAMP" @@
    << "TIMESTAMP", "WITH", "TIME", "ZONE" >> :> "TIMESTAMP" @@
    << "TIMESTAMP", "WITH", "LOCAL", "TIME", "ZONE" >> :> "TIMESTAMP" @@
    << "INTERVAL", "YEAR", "TO", "MONTH" >> :> "INTERVAL" @@
    << "INTERVAL", "DAY", "TO", "SECOND" >> :> "INTERVAL" @@
    << "RAW" >> :> "RAW" @@ << "LONG", "RAW" >> :> "VARBINARY" @@
    << "BLOB" >> :> "BLOB" @@ << "BFILE" >> :> "BLOB" @@
    << "BOOLEAN" >> :> "BOOLEAN" @@ << "ROWID" >> :> "ROWID" @@
    << "UROWID" >> :> "UROWID" @@ << "REF", "CURSOR" >> :> "REF_CURSOR" @@
    << "SYS_REFCURSOR" >> :> "REF_CURSOR" @@ << "XMLTYPE" >> :> "XMLTYPE" @@
    << "JSON" >> :> "JSON"

\* _build_platform_mappings: the canonical types that have a template for
\* every platform, and the placeholders of each template
\* (l = {length}, p = {precision}, s = {scale}).
TemplatedCanonical ==
    { "INTEGER", "DECIMAL", "VARCHAR", "NVARCHAR", "DATETIME", "TIMESTAMP",
      "BOOLEAN", "CLOB", "BLOB", "ROWID" }

PlatformTemplate(canonical, platform) ==
    IF canonical \notin TemplatedCanonical \/ platform \notin TargetPlatform
    THEN [t |-> "unknown", l |-> FALSE, p |-> FALSE, s |-> FALSE]
    ELSE IF canonical = "DECIMAL"
    THEN [t |-> "decimal", l |-> FALSE, p |-> TRUE, s |-> TRUE]
    ELSE IF canonical \in {"VARCHAR", "NVARCHAR"}
    THEN IF platform = "bigquery"
         THEN [t |-> "string", l |-> FALSE, p |-> FALSE, s |-> FALSE]
         ELSE [t |-> "varchar", l |-> TRUE, p |-> FALSE, s |-> FALSE]
    ELSE [t |-> "fixed", l |-> FALSE, p |-> FALSE, s |-> FALSE]

\* str.upper() on the words of the alphabet
Upper(w) ==
    CASE w = "varchar2" -> "VARCHAR2"
      [] w = "rowid" -> "ROWID"
      [] OTHER -> w

\* A declaration: words w, separators s (s[i] stands between w[i] and
\* w[i+1]), pp = index of the word the parameter list is attached to
\* (0 = none), p = the parameters (-1 = a parameter that is not all digits),
\* open = the parameter list is not closed by ')'.
NoValue == -1

SubstringNotNull(ws, ss) ==
    \E i \in 1..(Len(ws) - 1) :
        ws[i] = "NOT" /\ ws[i + 1] = "NULL" /\ ss[i] = "sp"

\* parse_oracle_type.  The pattern
\*   ^(\w+(?:\s+\w+)*?)(?:\(([^)]+)\))?(?:\s+(.*))?$
\* takes the shortest run of words after which the rest fits on one line:
\* '.' does not cross a line break, so group 1 extends up to the last
\* separator that is a line break; it cannot extend past a word that is
\* directly followed by '('.
\* A parameter list that lacks its ')' (d.open) matches nothing.
GroupEnd(d) ==
    LET n == Len(d.w)
        nls == { i \in 1..(n - 1) : d.s[i] = "nl" }
        k == IF nls = {} THEN 1
             ELSE CHOOSE i \in nls : \A j \in nls : j <= i
    IN IF d.pp # 0 /\ (d.pp < k \/ (d.pp = k /\ d.open)) THEN 0 ELSE k

parse_oracle_type(d) ==
    IF d.w = << >>
    THEN [base_type |-> << "UNKNOWN" >>, plain |-> TRUE, length |-> NoValue,
          precision |-> NoValue, scale |-> NoValue, notnull |-> FALSE,
          has_default |-> FALSE]
    ELSE
    LET k == GroupEnd(d)
        u == [i \in 1..Len(d.w) |-> Upper(d.w[i])]
    IN IF k = 0
       THEN \* no match: base_type is the whole declaration text
            [base_type |-> u, plain |-> FALSE, length |-> NoValue,
             precision |-> NoValue, scale |-> NoValue, notnull |-> FALSE,
             has_default |-> FALSE]
       ELSE
       LET base == SubSeq(u, 1, k)
           plain == \A i \in 1..(k - 1) : d.s[i] = "sp"
           params == IF d.pp = k THEN d.p ELSE << >>
           one == Len(params) = 1 /\ params[1] >= 0
           two == Len(params) = 2 /\ params[1] >= 0 /\ params[2] >= 0
           mods == SubSeq(u, k + 1, Len(u))
           msep == SubSeq(d.s, k + 1, Len(u) - 1)
       IN [base_type |-> base,
           plain |-> plain,
           length |->
               IF one /\ base \in { <<"VARCHAR2">>, <<"VARCHAR">>, <<"CHAR">>,
                                    <<"NCHAR">>, <<"NVARCHAR2">>, <<"RAW">> }
               THEN params[1] ELSE NoValue,
           precision |->
               IF one /\ base \in { <<"NUMBER">>, <<"DECIMAL">>, <<"NUMERIC">>,
                                    <<"TIMESTAMP">>, <<"INTERVAL">> }
               THEN params[1]
               ELSE IF two THEN params[1] ELSE NoValue,
           scale |-> IF two THEN params[2] ELSE NoValue,
           notnull |-> SubstringNotNull(mods, msep),
           has_default |-> \E i \in 1..Len(mods) : mods[i] = "DEFAULT"]

\* get_canonical_type
get_canonical_type(d) ==
    IF d.w = << >> THEN "UNKNOWN"
    ELSE LET ti == parse_oracle_type(d)
         IN IF ti.plain /\ ti.base_type \in DOMAIN PlsqlToCanonical
            THEN PlsqlToCanonical[ti.base_type]
            ELSE "UNKNOWN"

\* get_platform_type: a placeholder is replaced only by a truthy value
\* (neither None nor 0).  In the result l, p, s are: -2 = the template has
\* no such placeholder, -1 = the placeholder is left in, else the value.
Substitute(has, v) == IF ~has THEN -2 ELSE IF v > 0 THEN v ELSE -1

get_platform_type(canonical, platform, length, precision, scale) ==
    LET tp == PlatformTemplate(canonical, platform)
    IN [t |-> tp.t,
        l |-> Substitute(tp.l, length),
        p |-> Substitute(tp.p, precision),
        s |-> Substitute(tp.s, scale)]

\* _is_oracle_specific
OracleSpecific == { "ROWID", "UROWID", "REF_CURSOR", "INTERVAL" }

_is_oracle_specific(canonical) == canonical \in OracleSpecific

\* the list enrich_column_properties caps at 0.7 (type_mapping.py:430-431)
SpecialHandlingTypes == { "ROWID", "UROWID", "REF_CURSOR", "XMLTYPE" }

\* the confidence after the loop over the target platforms
RECURSIVE PlatformConfidence(_, _, _)
PlatformConfidence(canonical, ti, platforms) ==
    IF platforms = << >> THEN ConfFull
    ELSE LET rest == PlatformConfidence(canonical, ti, Tail(platforms))
             pt == get_platform_type(canonical, Head(platforms), ti.length,
                                     ti.precision, ti.scale)
         IN IF pt.t = "unknown" THEN Min2(rest, ConfUnmappedPlatform)
            ELSE rest

\* target_platforms=None
NotGiven == << "<none>" >>

\* lines 425-427: an unknown canonical type sets the confidence
UnknownConfidenceKeep(c) == c
UnknownConfidence(c) == ConfUnknownType

\* enrich_column_properties(oracle_type, target_platforms); platforms is
\* the sequence << None >> for None
\* lines 425-427
AfterUnknown(canonical, c) ==
    IF canonical = "UNKNOWN" THEN UnknownConfidence(c) ELSE c

\* lines 430-437: "if cond: confidence = min(confidence, limit)"
CapAt(c, cond, limit) == IF cond THEN Min2(c, limit) ELSE c

\* lines 404-455, from the parsed declaration ti, its canonical type and
\* the platform list tps
EnrichFrom(ti, canonical, tps) ==
    [parsed_type_info |-> ti,
     canonical_type |-> canonical,
     target_types |->
         [i \in 1..Len(tps) |->
             [platform |-> tps[i],
              type |-> get_platform_type(canonical, tps[i], ti.length,
                                         ti.precision, ti.scale)]],
     conversion_confidence |->
         CapAt(CapAt(AfterUnknown(canonical,
                                  PlatformConfidence(canonical, ti, tps)),
                     canonical \in SpecialHandlingTypes, ConfOracleSpecific),
               ti.length > LargeLength, ConfLargeLength),
     oracle_specific |-> _is_oracle_specific(canonical)]

enrich_column_properties(d, platforms) ==
    EnrichFrom(parse_oracle_type(d), get_canonical_type(d),
               IF platforms = NotGiven THEN DefaultPlatforms ELSE platforms)

\* ----------------------------------------------------------------------
\*  detect_column_types_from_sql, on the tokens of the statement
\*    CREATE TABLE <name> ( <column tokens> )
\*  A "(" token is attached to the word before it.
\* ----------------------------------------------------------------------
NumVal(tok) ==
    CASE tok = "0" -> 0 [] tok = "2" -> 2 [] tok = "10" -> 10
      [] tok = "50" -> 50 [] tok = "4001" -> 4001 [] OTHER -> -1

Punct == { "(", ")", "," }

\* index of the first token of toks equal to x, 0 if there is none
FirstIndex(toks, x) ==
    IF \E i \in 1..Len(toks) : toks[i] = x
    THEN CHOOSE i \in 1..Len(toks) :
            toks[i] = x /\ \A j \in 1..(i - 1) : toks[j] # x
    ELSE 0

\* the pattern CREATE\s+TABLE\s+\w+\s*\((.*?)\) : the lazy group ends at the
\* first ")" after the opening parenthesis (type_mapping.py:527)
TableDef(body) ==
    LET c == FirstIndex(body, ")")
    IN IF c = 0 THEN << >> ELSE SubSeq(body, 1, c - 1)

\* the comma splitter of type_mapping.py:536-546; st = [defs, cur, depth]
RECURSIVE SplitColumns(_, _)
SplitColumns(toks, st) ==
    IF toks = << >> THEN st.defs
    ELSE LET c == Head(toks)
         IN IF c = "("
            THEN SplitColumns(Tail(toks),
                     [st EXCEPT !.depth = @ + 1, !.cur = Append(@, c)])
            ELSE IF c = ")"
            THEN SplitColumns(Tail(toks),
                     [st EXCEPT !.depth = @ - 1, !.cur = Append(@, c)])
            ELSE IF c = "," /\ st.depth = 0
            THEN SplitColumns(Tail(toks),
                     [defs |-> IF st.cur # << >> THEN Append(st.defs, st.cur)
                               ELSE st.defs,
                      cur |-> << >>, depth |-> 0])
            ELSE SplitColumns(Tail(toks), [st EXCEPT !.cur = Append(@, c)])

ConstraintWords == { "CONSTRAINT", "CHECK", "UNIQUE" }

IsConstraintDef(def) ==
    \/ \E i \in 1..Len(def) : Upper(def[i]) \in ConstraintWords
    \/ \E i \in 1..(Len(def) - 1) :
          /\ Upper(def[i]) \in { "PRIMARY", "FOREIGN" }
          /\ Upper(def[i + 1]) = "KEY"

\* the declaration that the text of the type tokens denotes
DeclOfTokens(toks) ==
    LET o == FirstIndex(toks, "(")
        c == FirstIndex(toks, ")")
        before == IF o = 0 THEN toks ELSE SubSeq(toks, 1, o - 1)
        inside == IF o = 0 THEN << >>
                  ELSE IF c = 0 THEN SubSeq(toks, o + 1, Len(toks))
                  ELSE SubSeq(toks, o + 1, c - 1)
        after == IF o = 0 \/ c = 0 THEN << >>
                 ELSE SubSeq(toks, c + 1, Len(toks))
        nums == SelectSeq(inside, LAMBDA x : x # ",")
        ws == before \o after
    IN [w |-> ws,
        s |-> [i \in 1..(Len(ws) - 1) |-> "sp"],
        pp |-> IF o = 0 THEN 0 ELSE Len(before),
        p |-> [i \in 1..Len(nums) |-> NumVal(nums[i])],
        open |-> o # 0 /\ c = 0]

\* one column of the result: its name and what enrich_column_properties
\* returns for its type with the default platforms (type_mapping.py:556-563)
ColumnOf(name, e) ==
    [column_name |-> name,
     canonical_type |-> e.canonical_type,
     conversion_confidence |-> e.conversion_confidence]

ColumnInfo(def) ==
    ColumnOf(Head(def),
             enrich_column_properties(DeclOfTokens(Tail(def)), NotGiven))

ColumnInfos(kept) == [i \in 1..Len(kept) |-> ColumnInfo(kept[i])]

detect_column_types_from_sql(body) ==
    ColumnInfos(
        SelectSeq(SplitColumns(TableDef(body) \o << "," >>,
                      [defs |-> << >>, cur |-> << >>, depth |-> 0]),
                  LAMBDA d :
                    /\ ~IsConstraintDef(d)
                    /\ Len(d) >= 2
                    /\ d[1] \notin Punct /\ d[2] \notin Punct))

\* _calculate_mapping_confidence: the mean, kept as (sum, count)
RECURSIVE SumConfidence(_)
SumConfidence(cols) ==
    IF cols = << >> THEN 0
    ELSE Head(cols).conversion_confidence + SumConfidence(Tail(cols))

NoTypeMapping == [has |-> FALSE, columns |-> << >>, sum |-> 0]

\* the type_mapping block of a table node: attached only when column types
\* were detected (plsql_parser.py:863-875 and 551-560)
TypeMapping(cols) ==
    IF cols = << >> THEN NoTypeMapping
    ELSE [has |-> TRUE, columns |-> cols, sum |-> SumConfidence(cols)]

TypeMappingOf(body) == TypeMapping(detect_column_types_from_sql(body))

\* ======================================================================
\*  the source text: a sequence of items, each ending in ';'
\* ======================================================================
\* An item is one of
\*   proc    CREATE OR REPLACE PROCEDURE <t> IS BEGIN NULL;
\*   begin   BEGIN NULL;
\*   create  CREATE TABLE <t> ( <cols> );
\*   select  SELECT x [INTO v] FROM <f> [JOIN <j> ON c];
\*   insert  INSERT INTO <t> SELECT x FROM <f>;   (f = None: VALUES (1))
\*   update  UPDATE <t> SET x = 1;
\*   merge   MERGE INTO <t> USING <f> ON (c) WHEN MATCHED THEN UPDATE SET x = 1;
\*   call    <t>(1);
\* ast tells whether the AST parser accepts the item as a statement that
\* is or contains a SELECT.  Names are the raw tokens of the text.
None == "<none>"
QuotedEmpty == "\"\""
FileName == "f.sql"

Item(k, t, f, j, into, cols, ast) ==
    [k |-> k, t |-> t, f |-> f, j |-> j, into |-> into, cols |-> cols,
     ast |-> ast, raises |-> FALSE, view |-> FALSE]

\* a statement on which the call of parse_sql_semantics at line 1029
\* raises an exception
Raising(it) == [it EXCEPT !.raises = TRUE]

\* a SELECT that joins an aliased inline view, JOIN (SELECT y FROM <j>) v
\* ON ..., where the plain statement joins the table j itself
JoinsInlineView(it) == [it EXCEPT !.view = TRUE]

ColsScenario ==
    << "id", "NUMBER", "(", "10", ")", ",",
       "name", "VARCHAR2", "(", "50", ")" >>
ColsPlain == << "id", "NUMBER", ",", "d", "DATE" >>
ColsRowid == << "id", "NUMBER", ",", "r", "ROWID", ",",
                "CONSTRAINT", "pk", "PRIMARY", "KEY", "(", "id", ")" >>

Items ==
    { Item("proc", "p1", None, None, FALSE, << >>, FALSE),
      Item("proc", "p2", None, None, FALSE, << >>, FALSE),
      Item("begin", None, None, None, FALSE, << >>, FALSE),
      Item("create", "T", None, None, FALSE, ColsScenario, FALSE),
      Item("create", "T", None, None, FALSE, ColsPlain, FALSE),
      Item("create", "ROUND", None, None, FALSE, ColsRowid, FALSE),
      Item("select", None, "A", "B", FALSE, << >>, TRUE),
      Item("select", None, "A", "B", TRUE, << >>, TRUE),
      JoinsInlineView(Item("select", None, "A", "B", FALSE, << >>, TRUE)),
      Item("select", None, "T", None, FALSE, << >>, FALSE),
      Item("select", None, QuotedEmpty, None, FALSE, << >>, TRUE),
      Item("insert", "T", "T", None, FALSE, << >>, TRUE),
      Item("update", "B", None, None, FALSE, << >>, FALSE),
      Item("call", "log_it", None, None, FALSE, << >>, FALSE) }

\* the statements that procedures of a file share tables through
CoreItems ==
    { it \in Items :
        \/ it.k \in { "proc", "insert" }
        \/ it.k = "select" /\ it.ast
        \/ it.k = "create" /\ it.cols = ColsPlain }

\* files with statements on which the semantic analysis raises, next to
\* statements on which it does not
SemFiles ==
    LET ok == { it \in Items :
                  \/ it.k = "proc"
                  \/ /\ it.k = "select" /\ ~it.into /\ ~it.view
                     /\ it.f \in { "A", "T" } }
    IN SeqsUpTo(ok \cup { Raising(it) : it \in { x \in ok : x.j # None } },
                MaxItems + 1)

\* files with calls: of a procedure, of a name that is also the name of a
\* table, and of a reserved word, next to statements that read and write
\* tables
CallFiles ==
    SeqsUpTo({ it \in Items :
                 \/ it.k \in { "proc", "begin", "update", "call" }
                 \/ it.k = "select" /\ it.f = "T" }
             \cup { Item("call", "T", None, None, FALSE, << >>, FALSE),
                    Item("call", "nvl", None, None, FALSE, << >>, FALSE) },
             MaxItems)

\* the texts of a project: a file of one procedure, a file of two
\* procedures, a script without a header and a file without SQL
SampleTexts ==
    { << Item("proc", "p1", None, None, FALSE, << >>, FALSE),
         Item("select", None, "A", "B", FALSE, << >>, TRUE) >>,
      << Item("proc", "p1", None, None, FALSE, << >>, FALSE),
         Item("create", "T", None, None, FALSE, ColsPlain, FALSE),
         Item("proc", "p2", None, None, FALSE, << >>, FALSE) >>,
      << Item("create", "ROUND", None, None, FALSE, ColsRowid, FALSE) >>,
      << >> }

\* the discovered paths: each is readable and holds a text, or
\* path.read_text (line 742) raises on it
FileLists ==
    SeqsUpTo({ [readable |-> TRUE, text |-> t] : t \in SampleTexts }
             \cup { [readable |-> FALSE, text |-> << >>] },
             MaxFiles)

\* the source files: up to MaxItems of the core statements, or fewer
\* statements of any kind
Files == SeqsUpTo(CoreItems, MaxItems) \cup SeqsUpTo(Items, MaxItems - 1)

\* the declarations and platform lists enrich_column_properties is
\* applied to
BaseTypes ==
    DOMAIN PlsqlToCanonical
    \cup { << "FOO" >>, << "INTERVAL" >>, << "DOUBLE" >>, << "varchar2" >> }

Modifiers == { << >>, << "NOT", "NULL" >>, << "DEFAULT", "X" >> }

ParamLists ==
    { << >>, << 10 >>, << 4001 >>, << 10, 2 >>, << 10, 0 >>, << -1 >> }

MkDecl(base, mods, sep, params) ==
    [w |-> base \o mods,
     s |-> [i \in 1..(Len(base) + Len(mods) - 1) |->
              IF i = Len(base) THEN sep ELSE "sp"],
     pp |-> IF params = << >> THEN 0 ELSE Len(base),
     p |-> params,
     open |-> FALSE]

Declarations ==
    { MkDecl(b, << >>, "sp", ps) : b \in BaseTypes, ps \in ParamLists }
    \cup { MkDecl(b, m, sep, ps) :
             b \in BaseTypes, m \in Modifiers \ { << >> },
             sep \in { "sp", "nl" }, ps \in ParamLists }
    \cup { [w |-> << >>, s |-> << >>, pp |-> 0, p |-> << >>, open |-> FALSE] }

PlatformLists ==
    { NotGiven }
    \cup { ps \in SeqsUpTo(TargetPlatform, MaxPlatforms) :
             \A i, j \in 1..Len(ps) : i # j => ps[i] # ps[j] }

\* str.lower() on the names of the alphabet
Lower(n) ==
    CASE n = "A" -> "a" [] n = "B" -> "b" [] n = "T" -> "t"
      [] n = "ROUND" -> "round" [] n = "JOIN" -> "join" [] n = "ON" -> "on"
      [] OTHER -> n

\* str.strip('"')
StripQuotes(n) == IF n = QuotedEmpty THEN "" ELSE n

\* CanonicalPlsqlParser.ORACLE_FUNCTIONS
ORACLE_FUNCTIONS ==
    { "round", "avg", "sum", "count", "max", "min", "substr", "to_date",
      "to_char", "nvl", "decode", "coalesce", "trim", "ltrim", "rtrim",
      "upper", "lower", "sysdate", "current_date", "cast", "extract", "trunc",
      "ceil", "floor", "abs", "mod", "power", "sqrt", "sign", "length",
      "instr", "replace", "translate", "lpad", "rpad", "soundex", "ascii",
      "chr", "initcap" }

\* EnhancedPlsqlParser.ORACLE_FUNCTIONS
SqlParserFunctions ==
    { "to_date", "to_char", "to_number", "extract", "substr", "length",
      "instr", "upper", "lower", "initcap", "trim", "ltrim", "rtrim",
      "replace", "translate", "decode", "nvl", "nvl2", "coalesce", "nullif",
      "greatest", "least", "abs", "ceil", "floor", "round", "trunc", "mod",
      "power", "sqrt", "sign", "sin", "cos", "tan", "asin", "acos", "atan",
      "atan2", "exp", "ln", "log", "avg", "count", "max", "min", "sum",
      "stddev", "variance", "rank", "dense_rank", "row_number", "lead",
      "lag", "first_value", "last_value", "sysdate", "systimestamp",
      "current_date", "current_timestamp", "localtimestamp", "add_months",
      "months_between", "next_day", "last_day", "trunc_date" }

Reserved ==
    { "select", "from", "insert", "update", "delete", "merge", "into",
      "values", "where", "and", "or", "not", "exists", "in", "between",
      "like", "join", "inner", "left", "right", "full", "outer", "on",
      "group", "order", "by", "having", "union", "all", "distinct", "case",
      "when", "then", "else", "end", "dual", "rownum", "to_date", "to_char",
      "substr", "extract", "nvl", "decode", "coalesce", "trim", "ltrim",
      "rtrim", "upper", "lower", "sysdate", "current_date", "cast",
      "varchar2", "number", "date", "char", "timestamp", "with", "as", "is",
      "begin", "declare", "loop", "for", "while", "commit", "rollback",
      "primary", "key", "constraint", "references", "unique", "check",
      "foreign", "using", "set", "of", "table", "column", "row", "add",
      "comment", "prompt", "source" }

_is_reserved(name) == Lower(name) \in Reserved

_is_oracle_function(name) == Lower(name) \in ORACLE_FUNCTIONS

\* _is_fake_table_node: the name is "(" or starts with "("
_is_fake_table_node(name) == name = "("

\* ---------------------------------------------------- words in a block
HasSelectWord(it) ==
    it.k = "select" \/ (it.k = "insert" /\ it.f # None)

HasFromName(it) == it.k \in {"select", "insert"} /\ it.f # None

\* SELECT_RE, INSERT_RE, UPDATE_RE, MERGE_RE, CREATE_TABLE_RE find a match
HasDmlOrDdl(text) ==
    \E i \in 1..Len(text) :
        \/ HasFromName(text[i])
        \/ text[i].k \in {"insert", "update", "merge", "create"}

\* _extract_tables_from_select: the names after FROM, that of the
\* subquery of an inline view included, quotes stripped, without reserved
\* words and built-in functions
_extract_tables_from_select(block) ==
    { StripQuotes(block[i].f) :
        i \in { n \in 1..Len(block) :
                  /\ HasFromName(block[n])
                  /\ ~_is_reserved(StripQuotes(block[n].f))
                  /\ ~_is_oracle_function(StripQuotes(block[n].f)) } }
    \cup { block[i].j :
             i \in { n \in 1..Len(block) :
                       /\ block[n].view
                       /\ ~_is_reserved(block[n].j)
                       /\ ~_is_oracle_function(block[n].j) } }

\* _extract_tables_from_dml: the write targets
DmlWrites(block) ==
    { StripQuotes(block[i].t) :
        i \in { n \in 1..Len(block) :
                  /\ block[n].k \in {"insert", "update", "merge"}
                  /\ ~_is_reserved(StripQuotes(block[n].t))
                  /\ ~_is_oracle_function(StripQuotes(block[n].t)) } }

\* _detect_operations followed by the fallback of parse (lines 747-753):
\* the spans, as (name, index of the first item)
ProcIndexes(text) == { i \in 1..Len(text) : text[i].k = "proc" }

RECURSIVE ProcSpans(_, _)
ProcSpans(text, i) ==
    IF i > Len(text) THEN << >>
    ELSE IF text[i].k = "proc"
    THEN << [name |-> text[i].t, start |-> i, end |-> Len(text)] >>
         \o ProcSpans(text, i + 1)
    ELSE ProcSpans(text, i + 1)

_detect_operations(text) ==
    IF ProcIndexes(text) # {} THEN ProcSpans(text, 1)
    ELSE IF \E i \in 1..Len(text) : text[i].k \in {"begin"}
    THEN << [name |-> "anonymous_block", start |-> 1, end |-> Len(text)] >>
    ELSE << >>

\* lines 747-753 without the fallback to one anonymous span
DetectedSpansNoFallback(text) == _detect_operations(text)
DetectedSpans(text) ==
    LET ops == _detect_operations(text)
    IN IF ops # << >> THEN ops
       ELSE IF HasDmlOrDdl(text)
       THEN << [name |-> "anonymous_block", start |-> 1, end |-> Len(text)] >>
       ELSE << >>

BlockOf(text, op) == SubSeq(text, op.start, op.end)

\* _extract_task_name_from_block (the text holds no comment and no cursor)
_extract_task_name_from_block(block) ==
    LET has(k) == \E i \in 1..Len(block) : block[i].k = k
    IN IF has("insert")
       THEN IF \E i \in 1..Len(block) : HasSelectWord(block[i])
            THEN "data_load_task" ELSE "data_insert_task"
       ELSE IF has("update") \/ has("merge") THEN "data_update_task"
       ELSE IF has("create") THEN "table_creation_task"
       ELSE IF has("select") THEN "data_query_task"
       ELSE "anonymous_block"

ActualOpName(block, op) ==
    LET task_name == _extract_task_name_from_block(block)
    IN IF task_name # "anonymous_block" THEN task_name ELSE op.name

\* ---------------------------------------------------------- statements
\* length of the text of an item, blank after the ';' included
TextLen(it) ==
    CASE it.k = "proc" -> 46
      [] it.k = "begin" -> 12
      [] it.k = "create" /\ it.cols = ColsScenario -> 51
      [] it.k = "create" /\ it.cols = ColsPlain -> 36
      [] it.k = "create" -> 73
      [] it.k = "select" /\ it.view -> 57
      [] it.k = "select" /\ it.j # None /\ it.into -> 46
      [] it.k = "select" /\ it.j # None -> 39
      [] it.k = "select" /\ it.f = QuotedEmpty -> 18
      [] it.k = "select" -> 17
      [] it.k = "insert" -> 31
      [] it.k = "update" -> 20
      [] it.k = "call" /\ it.t = "T" -> 6
      [] it.k = "call" /\ it.t = "nvl" -> 8
      [] OTHER -> 11

\* the words of the piece of text of a statement: the whole item on the
\* AST path (line 1197), the match of SELECT ... FROM ... up to the
\* semicolon on the regex path (line 1216)
PieceOf(it, whole) ==
    (IF whole /\ it.k = "insert" THEN << "INSERT", "INTO", it.t >>
     ELSE << >>)
    \o << "SELECT", "x" >>
    \o (IF it.into THEN << "INTO", "v" >> ELSE << >>)
    \o << "FROM", it.f >>
    \o (IF it.view
        THEN << "JOIN", "(", "SELECT", "y", "FROM", it.j, ")", "v", "ON", "c" >>
        ELSE IF it.j # None THEN << "JOIN", it.j, "ON", "c" >> ELSE << >>)

\* An extracted statement: the piece of text handed to the semantic
\* analysis.  piece is the text as it was cut out and text the text that
\* is returned; tgt is the INSERT target when the piece is a whole INSERT
\* statement; mangled tells that the INTO normalisation rewrote the text
\* from SELECT up to FROM.
Stmt(it, whole) ==
    [tgt |-> IF whole /\ it.k = "insert" THEN it.t ELSE None,
     f |-> it.f, j |-> it.j, ast |-> it.ast, mangled |-> FALSE,
     into |-> it.into, raises |-> it.raises, view |-> it.view,
     piece |-> PieceOf(it, whole), text |-> PieceOf(it, whole)]

\* The replacement template r"\\1 \\2" is two escaped backslashes, each
\* followed by a digit: it expands to the six characters \1 \2, whatever
\* the groups g1 and g2 hold.
Template(g1, g2) == << "\\1", "\\2" >>

\* the first index from i on at which the word w stands, or 0; from 0 on
\* nothing is looked for
IndexFrom(toks, w, i) ==
    IF i > 0 /\ \E n \in i..Len(toks) : toks[n] = w
    THEN CHOOSE n \in i..Len(toks) :
            toks[n] = w /\ \A m \in i..(n - 1) : toks[m] # w
    ELSE 0

\* re.sub(patt, r"\\1 \\2", s) with
\*   patt = (select\s+.*?)\s+into\s+.+?\s+(from\s+)
\* s, i and f are the places of SELECT, of the first INTO after it and of
\* the first FROM after the word that follows INTO; the text from s to f
\* is replaced by the expansion of the template
SubInto(toks, s, i, f) ==
    IF s = 0 \/ i = 0 \/ f = 0 THEN toks
    ELSE SubSeq(toks, 1, s - 1)
         \o Template(SubSeq(toks, s, i - 1), << "FROM" >>)
         \o SubSeq(toks, f + 1, Len(toks))

\* lines 1210-1212 and 1218-1220 on one statement: s is the place of
\* SELECT, i of the first INTO after it and f of the first FROM after the
\* word that follows INTO
NormalizeInto(st) ==
    LET s == IndexFrom(st.text, "SELECT", 1)
        i == IndexFrom(st.text, "INTO", IF s = 0 THEN 0 ELSE s + 1)
        f == IndexFrom(st.text, "FROM", IF i = 0 THEN 0 ELSE i + 2)
        t == SubInto(st.text, s, i, f)
    IN [st EXCEPT !.text = t, !.mangled = (t # st.text)]

_extract_sql_statements(block, sqlglot) ==
    LET sel == SelectSeq(block, HasSelectWord)
        parsed == SelectSeq(sel, LAMBDA it : it.ast)
        stmts == IF sqlglot /\ parsed # << >>
                 THEN [i \in 1..Len(parsed) |-> Stmt(parsed[i], TRUE)]
                 ELSE [i \in 1..Len(sel) |-> Stmt(sel[i], FALSE)]
    IN [i \in 1..Len(stmts) |-> NormalizeInto(stmts[i])]

\* lines 578-603: the subtype is decided from the returned statements
\* alone; 'select' in stmt.lower() and the like are tests on the words of
\* a statement, which the texts of the model hold in upper case
_categorize_operation_subtype(stmts) ==
    LET has(w) == \E i \in 1..Len(stmts) :
                     \E n \in 1..Len(stmts[i].text) : stmts[i].text[n] = w
        pair(v, w) == \E i \in 1..Len(stmts) :
                         \E n \in 1..(Len(stmts[i].text) - 1) :
                            /\ stmts[i].text[n] = v
                            /\ stmts[i].text[n + 1] = w
    IN IF pair("CREATE", "PROCEDURE") \/ pair("CREATE", "FUNCTION")
       THEN "EXECUTE"
       ELSE IF has("MERGE") THEN "DATA_FLOW"
       ELSE IF pair("CREATE", "TABLE") THEN "EXECUTE"
       ELSE IF has("INSERT") /\ has("SELECT") THEN "DATA_FLOW"
       ELSE IF has("UPDATE") THEN "DATA_FLOW"
       ELSE IF has("INSERT") THEN "DATA_FLOW"
       ELSE IF has("SELECT") THEN "DATA_FLOW"
       ELSE "EXECUTE"

\* ======================================================================
\*  sql_semantics.py : EnhancedPlsqlParser.parse_sql_semantics
\* ======================================================================
NotFunction(n) == Lower(n) \notin SqlParserFunctions

\* _extract_semantics_from_ast: the Table nodes in the order find_all
\* visits them; a table without a name is skipped
AstTables(st) ==
    SelectSeq(<< st.tgt, st.f, st.j >>,
              LAMBDA n : n # None /\ StripQuotes(n) # "" /\ NotFunction(n))

\* _extract_table_references_regex: FROM <word>, then every JOIN <word>;
\* a rewritten statement has lost its FROM keyword, and the "(" of an
\* inline view after JOIN is no word
RegexTables(st) ==
    LET from == IF st.mangled \/ st.f = None \/ st.f = QuotedEmpty
                   \/ ~NotFunction(st.f)
                THEN << >> ELSE << st.f >>
        join == IF st.j = None \/ st.j = QuotedEmpty \/ ~NotFunction(st.j)
                   \/ st.view
                THEN << >> ELSE << st.j >>
    IN from \o join

\* _extract_joins_from_ast and _extract_join_relationships_regex: the
\* joined table is the right side, the first table found is the left side.
\* A join whose right side is a subquery gives no JoinRelationship: its
\* join_node.this is no Table (line 316), and the pattern of line 544
\* wants a word after JOIN.
JoinsOf(st, tables) ==
    IF st.j = None \/ st.j = QuotedEmpty \/ ~NotFunction(st.j)
       \/ tables = << >> \/ st.view
    THEN << >>
    ELSE << [left |-> tables[1], right |-> st.j] >>

\* sql_semantics.py lines 169-178
SQL_KEYWORDS ==
    { "select", "from", "where", "join", "inner", "left", "right", "full",
      "outer", "union", "order", "group", "by", "having", "distinct", "as",
      "on", "and", "or", "not", "in", "exists", "case", "when", "then",
      "else", "end", "null", "is", "between", "like", "into", "values",
      "insert", "update", "delete", "merge", "create", "alter", "drop",
      "table", "view", "index", "sequence", "constraint", "primary", "key",
      "foreign", "references", "unique", "check", "default", "varchar2",
      "number", "date", "timestamp", "char", "clob", "blob", "rowid", "dual",
      "sysdate", "systimestamp", "rownum", "nextval", "currval" }

\* "alias and alias.lower() in SQL_KEYWORDS"
KeywordAlias(a) == a # None /\ Lower(a) \in SQL_KEYWORDS

\* lines 293-295, 325-326, 516-517, 531-532 and 564-565: such an alias is
\* discarded
DiscardKeywordKeep(a) == a
DiscardKeyword(a) == IF KeywordAlias(a) THEN None ELSE a

\* the alias the AST gives each table of AstTables: the texts of the items
\* name no alias
AstAliases(st) == [i \in 1..Len(AstTables(st)) |-> None]

\* the third group of from_pattern and of join_pattern for each table of
\* RegexTables: the word that follows the table name, which is JOIN after
\* the table of FROM when a join follows and ON after a joined table
RegexAliases(st) ==
    LET from == IF st.mangled \/ st.f = None \/ st.f = QuotedEmpty
                   \/ ~NotFunction(st.f)
                THEN << >>
                ELSE << IF st.j # None THEN "JOIN" ELSE None >>
        join == IF st.j = None \/ st.j = QuotedEmpty \/ ~NotFunction(st.j)
                   \/ st.view
                THEN << >> ELSE << "ON" >>
    IN from \o join

\* the SqlSemantics of the tables found with the aliases raw.  aliases
\* holds the alias of every TableReference: of the tables, then of the
\* left and the right side of the join.  The left side is the first table
\* of the list; the right side is built anew, and its alias is absent, as
\* the texts name no alias and the join pattern of line 544 wants ON after
\* it.  discarded is the number of aliases of the tables that were
\* discarded as keywords.
SemanticsOf(st, tables, raw, views) ==
    [tables |-> tables,
     joins |-> JoinsOf(st, tables),
     inline_views |-> views,
     aliases |-> [i \in 1..Len(raw) |-> DiscardKeyword(raw[i])]
                 \o (IF JoinsOf(st, tables) = << >> THEN << >>
                     ELSE << DiscardKeyword(raw[1]), DiscardKeyword(None) >>),
     discarded |-> Cardinality({ i \in 1..Len(raw) : KeywordAlias(raw[i]) })]

\* lines 412-434: every aliased subquery with the tables inside it
_extract_inline_views_from_ast(st) ==
    IF st.view THEN << [alias |-> "v", base_tables |-> << st.j >>] >>
    ELSE << >>

\* the AST path is taken when the parser is installed and accepts the
\* text; the rewritten text "\1 \2..." is not SQL.  The regex path finds
\* no inline views (line 491).
parse_sql_semantics(st, sqlglot) ==
    IF sqlglot /\ st.ast /\ ~st.mangled
    THEN SemanticsOf(st, AstTables(st), AstAliases(st),
                     _extract_inline_views_from_ast(st))
    ELSE SemanticsOf(st, RegexTables(st), RegexAliases(st), << >>)

\* ======================================================================
\*  plsql_parser.py : the body of the loop of CanonicalPlsqlParser.parse
\* ======================================================================
ContextWindow == 40

OpId(name) == << "plsql", FileName, name >>
PipelineId == << "plsql", FileName >>
TableId(name) == << "table", name >>
CalleeId(name) == << "plsql", name >>

MkNode(id, type, name, tm, src) ==
    [node_id |-> id, node_type |-> type, name |-> name, tm |-> tm,
     src |-> src]

MkEdge(src, tgt, rel) == [source_id |-> src, target_id |-> tgt,
                          relation |-> rel]

TableNode(name, tm, src) == MkNode(TableId(name), "table", name, tm, src)

\* the guard "asset_id not in file_seen_assets" of lines 881, 902, 947,
\* 978, 1044, 1068 and 1075
NotSeenAlways(id, seen) == TRUE
NotSeen(id, seen) == id \notin seen

\* PHASE 1 (lines 826-894): one CREATE TABLE match
FirstCreate(block, raw) ==
    block[CHOOSE i \in 1..Len(block) :
            /\ block[i].k = "create" /\ block[i].t = raw
            /\ \A j \in 1..(i - 1) :
                  ~(block[j].k = "create" /\ block[j].t = raw)]

CreateOne(block, it, acc, op_id) ==
    LET tname == StripQuotes(it.t)
        asset_id == TableId(tname)
        tm == TypeMappingOf(FirstCreate(block, it.t).cols \o << ")" >>)
    IN IF _is_fake_table_node(tname) THEN acc
       ELSE [nodes |-> IF NotSeen(asset_id, acc.seen)
                       THEN Append(acc.nodes,
                                TableNode(tname, tm, "CREATE TABLE statement"))
                       ELSE acc.nodes,
             edges |-> Append(acc.edges, MkEdge(op_id, asset_id, "WRITES_TO")),
             seen |-> acc.seen \cup { asset_id },
             created |-> acc.created \cup { tname },
             sem |-> acc.sem, aliases |-> acc.aliases,
             discarded |-> acc.discarded, statements |-> acc.statements]

RECURSIVE CreatePass(_, _, _, _)
CreatePass(block, its, acc, op_id) ==
    IF its = << >> THEN acc
    ELSE CreatePass(block, Tail(its), CreateOne(block, Head(its), acc, op_id),
                    op_id)

\* PHASE 2 (lines 899-1004): one table name read or written
ReferenceOne(tbl, acc, op_id, rel) ==
    LET asset_id == TableId(tbl)
    IN IF _is_fake_table_node(tbl) \/ _is_oracle_function(tbl) THEN acc
       ELSE LET fresh == NotSeen(asset_id, acc.seen) /\ tbl \notin acc.created
            IN [nodes |-> IF fresh
                          THEN Append(acc.nodes,
                                   TableNode(tbl, NoTypeMapping, "referenced"))
                          ELSE acc.nodes,
                edges |-> Append(acc.edges, MkEdge(op_id, asset_id, rel)),
                seen |-> IF fresh THEN acc.seen \cup { asset_id }
                         ELSE acc.seen,
                created |-> acc.created,
                sem |-> acc.sem, aliases |-> acc.aliases,
                discarded |-> acc.discarded, statements |-> acc.statements]

RECURSIVE ReferencePass(_, _, _, _)
ReferencePass(tbls, acc, op_id, rel) ==
    IF tbls = << >> THEN acc
    ELSE ReferencePass(Tail(tbls), ReferenceOne(Head(tbls), acc, op_id, rel),
                       op_id, rel)

\* lines 1006-1023: procedure calls
CtxTokenBefore(block, i) ==
    \E j \in 1..(i - 1) :
        /\ block[j].k \in { "proc", "create", "insert", "update", "merge" }
        /\ LET d[n \in j..i] ==
                   IF n = i THEN 0 ELSE TextLen(block[n]) + d[n + 1]
           IN d[j] <= ContextWindow

IsCallAlways(block, i, tables_in_block) == block[i].k = "call"
IsCall(block, i, tables_in_block) ==
    /\ block[i].k = "call"
    /\ ~_is_reserved(Lower(block[i].t))
    /\ Lower(block[i].t) \notin tables_in_block
    /\ ~CtxTokenBefore(block, i)

RECURSIVE CallPass(_, _, _, _, _)
CallPass(block, i, acc, op_id, tables_in_block) ==
    IF i > Len(block) THEN acc
    ELSE CallPass(block, i + 1,
             IF IsCall(block, i, tables_in_block)
             THEN [acc EXCEPT
                     !.nodes = Append(@, MkNode(CalleeId(block[i].t),
                                   "operation", block[i].t, NoTypeMapping, "")),
                     !.edges = Append(@, MkEdge(op_id, CalleeId(block[i].t),
                                                "DEPENDS_ON"))]
             ELSE acc,
             op_id, tables_in_block)

\* lines 1040-1053 and 1068-1081: the table node of a name found by the
\* semantic analysis
EnsureTable(name, acc) ==
    IF NotSeen(TableId(name), acc.seen)
    THEN [acc EXCEPT
            !.nodes = Append(@, TableNode(name, NoTypeMapping,
                          IF name \notin acc.created THEN "referenced"
                          ELSE "")),
            !.seen = @ \cup { TableId(name) }]
    ELSE acc

\* _validate_edge_for_serialization
EndpointOk(id) ==
    id[1] # "table"
    \/ (~_is_fake_table_node(id[2])
        /\ (id[2] = "" \/ ~_is_oracle_function(id[2])))

\* a validation of edges that also rejects the Contains edges
ValidateEdgeNoContains(e) ==
    EndpointOk(e.source_id) /\ EndpointOk(e.target_id)
    /\ e.relation # "CONTAINS"
\* a validation of edges that keeps the edges of the rejected nodes
ValidateEdgeKeepAll(e) == TRUE
_validate_edge_for_serialization(e) ==
    EndpointOk(e.source_id) /\ EndpointOk(e.target_id)

RECURSIVE SemTablesPass(_, _, _)
SemTablesPass(tables, acc, op_id) ==
    IF tables = << >> THEN acc
    ELSE LET tname == Head(tables)
         IN SemTablesPass(Tail(tables),
                IF tname # "" /\ ~_is_fake_table_node(tname)
                THEN LET a == EnsureTable(tname, acc)
                     IN [a EXCEPT !.edges =
                            Append(@, MkEdge(op_id, TableId(tname),
                                             "READS_FROM"))]
                ELSE acc,
                op_id)

\* lines 1056-1101: the joins of one statement; pairs = processed_join_pairs
RECURSIVE SemJoinsPass(_, _, _)
SemJoinsPass(joins, acc, pairs) ==
    IF joins = << >> THEN acc
    ELSE LET j == Head(joins)
             edge == MkEdge(TableId(j.left), TableId(j.right), "REFERENCES")
             ok == /\ j.left # "" /\ j.right # ""
                   /\ ~_is_fake_table_node(j.left)
                   /\ ~_is_fake_table_node(j.right)
             emit == /\ ok /\ << j.left, j.right >> \notin pairs
                     /\ _validate_edge_for_serialization(edge)
             a == IF ok THEN EnsureTable(j.right, EnsureTable(j.left, acc))
                  ELSE acc
         IN SemJoinsPass(Tail(joins),
                IF emit THEN [a EXCEPT !.edges = Append(@, edge)] ELSE a,
                IF emit THEN pairs \cup { << j.left, j.right >> } ELSE pairs)

\* lines 426-476 on the semantics of one statement: for every join and
\* every inline view, the side of the join whose name or alias is the
\* alias of the view is replaced by the base tables of the view.  The
\* alias of the left side is that of the first table; the right side of
\* a join of the model has no alias.
_resolve_inline_view_lineage(sem) ==
    Flatten([a \in 1..Len(sem.joins) |->
      Flatten([b \in 1..Len(sem.inline_views) |->
        LET bases == SelectSeq(sem.inline_views[b].base_tables,
                               LAMBDA t : ~_is_fake_table_node(t))
        IN (IF sem.inline_views[b].alias
                  \in { sem.joins[a].left, sem.aliases[1] }
            THEN [c \in 1..Len(bases) |->
                    MkEdge(TableId(bases[c]), TableId(sem.joins[a].right),
                           "REFERENCES")]
            ELSE << >>)
           \o (IF sem.inline_views[b].alias = sem.joins[a].right
               THEN [c \in 1..Len(bases) |->
                       MkEdge(TableId(sem.joins[a].left), TableId(bases[c]),
                              "REFERENCES")]
               ELSE << >>)])])

\* lines 1030-1107: the semantics sem of the statement st are appended to
\* semantics_list, then its tables and joins are walked and the edges of
\* its inline views appended
WithSemantics(st, sem, acc, op_id) ==
    IF sem.tables # << >>
    THEN [SemJoinsPass(sem.joins,
             SemTablesPass(sem.tables,
                 [acc EXCEPT !.sem = Append(@, st),
                             !.aliases = @ \o sem.aliases,
                             !.discarded = @ + sem.discarded], op_id), {})
          EXCEPT !.edges =
             @ \o SelectSeq(_resolve_inline_view_lineage(sem),
                            _validate_edge_for_serialization)]
    ELSE acc

\* lines 1109-1111: "except Exception: ... continue" goes on with the
\* statements that follow
AfterFailureStop(rest) == << >>
AfterFailure(rest) == rest

\* lines 1026-1111: every extracted statement
RECURSIVE SemanticsPass(_, _, _, _)
SemanticsPass(stmts, acc, op_id, sqlglot) ==
    IF stmts = << >> THEN acc
    ELSE IF Head(stmts).raises
    THEN SemanticsPass(AfterFailure(Tail(stmts)), acc, op_id, sqlglot)
    ELSE SemanticsPass(Tail(stmts),
             WithSemantics(Head(stmts),
                 parse_sql_semantics(Head(stmts), sqlglot), acc, op_id),
             op_id, sqlglot)

\* lines 1121-1173: connection and parameter nodes of the injected context
ContextNodes(conns, params) ==
    [i \in 1..Len(conns) |->
        MkNode(<< "connection", conns[i] >>, "connection", conns[i],
               NoTypeMapping, "")]
    \o [i \in 1..Len(params) |->
        MkNode(<< "parameter", params[i] >>, "parameter", params[i],
               NoTypeMapping, "")]

ContextEdges(conns, params) ==
    [i \in 1..Len(conns) |->
        MkEdge(PipelineId, << "connection", conns[i] >>, "USES")]
    \o [i \in 1..Len(params) |->
        MkEdge(PipelineId, << "parameter", params[i] >>, "USES")]

\* _validate_node_for_serialization, without its counters
IsFakeTable(n) == n.node_type = "table" /\ _is_fake_table_node(n.name)

IsFunctionTable(n) ==
    n.node_type = "table" /\ ~_is_fake_table_node(n.name)
    /\ _is_oracle_function(n.name)

_validate_node_for_serialization(n) == ~IsFakeTable(n) /\ ~IsFunctionTable(n)

\* lines 1180-1181: { key(x): x for x in xs }.values() keeps one entry per
\* key, at the place of the first and with the value of the last
NodeKey(n) == << n.node_id, n.node_type >>
EdgeKey(e) == << e.source_id, e.target_id, e.relation >>

\* keys[i] is the key of xs[i]
DedupByKey(xs, keys) ==
    LET firsts == SelectSeq([i \in 1..Len(xs) |-> i],
                      LAMBDA i : \A j \in 1..(i - 1) : keys[j] # keys[i])
        last(i) == CHOOSE j \in 1..Len(xs) :
                      /\ keys[j] = keys[i]
                      /\ \A m \in (j + 1)..Len(xs) : keys[m] # keys[i]
    IN [n \in 1..Len(firsts) |-> xs[last(firsts[n])]]

UniqNodes(xs) == DedupByKey(xs, [i \in 1..Len(xs) |-> NodeKey(xs[i])])
\* the validated edges as they are, without line 1181
UniqEdgesKeep(xs) == xs
UniqEdges(xs) == DedupByKey(xs, [i \in 1..Len(xs) |-> EdgeKey(xs[i])])

\* lines 1121-1173: the context nodes and edges are appended
WithContext(acc, conns, params) ==
    [acc EXCEPT !.nodes = @ \o ContextNodes(conns, params),
                !.edges = @ \o ContextEdges(conns, params)]

\* lines 1176-1181: validation, counters and deduplication of the lists
Validated(acc) ==
    [nodes |->
         UniqNodes(SelectSeq(acc.nodes, _validate_node_for_serialization)),
     edges |->
         UniqEdges(SelectSeq(acc.edges, _validate_edge_for_serialization)),
     raw_nodes |-> acc.nodes,
     raw_edges |-> acc.edges,
     semantics |-> acc.sem,
     statements |-> acc.statements,
     aliases |-> acc.aliases,
     operation_subtype |-> _categorize_operation_subtype(acc.statements),
     keyword |-> Len(SelectSeq(acc.aliases, KeywordAlias)),
     discarded |-> acc.discarded,
     seen |-> acc.seen,
     created |-> acc.created,
     fake |-> Len(SelectSeq(acc.nodes, IsFakeTable)),
     functions |-> Len(SelectSeq(acc.nodes, IsFunctionTable))]

\* one iteration of the loop of parse (lines 760-1183) for the span op,
\* from the file-level sets seen and created
RunSpan(text, op, seen, created, sqlglot, conns, params) ==
    LET block == BlockOf(text, op)
        actual_op_name == ActualOpName(block, op)
        op_id == OpId(actual_op_name)
        acc0 == [nodes |-> << MkNode(op_id, "operation", actual_op_name,
                                     NoTypeMapping, ""),
                              MkNode(PipelineId, "pipeline", "f",
                                     NoTypeMapping, "") >>,
                 edges |-> << MkEdge(PipelineId, op_id, "CONTAINS") >>,
                 seen |-> seen, created |-> created, sem |-> << >>,
                 aliases |-> << >>, discarded |-> 0, statements |-> << >>]
        acc1 == CreatePass(block,
                    SelectSeq(block, LAMBDA it : it.k = "create"), acc0, op_id)
        reads == _extract_tables_from_select(block)
        writes == DmlWrites(block)
        acc2 == ReferencePass(SetToSeq(reads), acc1, op_id, "READS_FROM")
        acc3 == ReferencePass(SetToSeq(reads), acc2, op_id, "READS_FROM")
        acc4 == ReferencePass(SetToSeq(writes), acc3, op_id, "WRITES_TO")
        tables_in_block == { Lower(t) : t \in reads \cup writes }
        acc5 == CallPass(block, 1, acc4, op_id, tables_in_block)
        stmts == _extract_sql_statements(block, sqlglot)
    IN Validated(WithContext(
           SemanticsPass(stmts, [acc5 EXCEPT !.statements = stmts], op_id,
                         sqlglot),
           conns, params))

\* ======================================================================
\*  column lineage (plsql_parser.py, sql_semantics.py)
\* ======================================================================
\* The text of a select list is a sequence of tokens: names, numbers and
\* the signs ( ) , . * +.  One blank stands between a name or a ")" and the
\* name that follows it, and nowhere else.
MaxExprs == 2          \* longest select list, in expressions

Signs == { "(", ")", ",", ".", "*", "+" }
IsName(t) == t \notin Signs

\* re.IGNORECASE and str.upper() on the names of the alphabet
UpperName(t) ==
    CASE t = "to_date" -> "TO_DATE"
      [] t = "as" -> "AS"
      [] OTHER -> t

\* a select-list expression as the grammar reads it: the tokens of its
\* body, its alias (None = no alias) and whether the alias follows AS
SelectExpr(body, alias, as) == [body |-> body, alias |-> alias, as |-> as]

Exprs ==
    { SelectExpr(<< "x" >>, None, FALSE),
      SelectExpr(<< "a", ".", "x" >>, None, FALSE),
      SelectExpr(<< "x" >>, "y", TRUE),
      SelectExpr(<< "*" >>, None, FALSE),
      SelectExpr(<< "x", "+", "1" >>, None, FALSE),
      SelectExpr(<< "to_date", "(", "x", ")" >>, None, FALSE),
      SelectExpr(<< "NVL", "(", "x", ",", "0", ")" >>, None, FALSE),
      SelectExpr(<< "ROUND", "(", "AVG", "(", "x", ")", ",", "2", ")" >>,
                 None, FALSE),
      SelectExpr(<< "COUNT", "(", "x", ")" >>, "n", FALSE),
      SelectExpr(<< "AVG", "(", "x", ")" >>, "n", FALSE),
      SelectExpr(<< "SUM", "(", "x", ")" >>, "s", TRUE),
      SelectExpr(<< "UPPER", "(", "x", ")" >>, "u", TRUE) }

\* the select lists that are analysed
SelectLists == { l \in SeqsUpTo(Exprs, MaxExprs) : l # << >> }

\* the text of an expression, as written in the file
TextOf(e) ==
    e.body \o (IF e.alias = None THEN << >>
               ELSE IF e.as THEN << "AS", e.alias >> ELSE << e.alias >>)

\* the select clause: the expressions, separated by commas
RECURSIVE ClauseOf(_)
ClauseOf(l) ==
    IF Len(l) = 1 THEN TextOf(l[1])
    ELSE TextOf(l[1]) \o << "," >> \o ClauseOf(Tail(l))

Tok(toks, i) == IF i \in 1..Len(toks) THEN toks[i] ELSE None

\* NAME\s*\([^)]+\) at token i: the index of the closing ")", 0 = no match
CallEnd(toks, i, name) ==
    IF UpperName(Tok(toks, i)) = name /\ Tok(toks, i + 1) = "("
    THEN LET j == IndexFrom(toks, ")", i + 2)
         IN IF j >= i + 3 THEN j ELSE 0
    ELSE 0

\* lines 181-196: the patterns of _clean_expression, in the order in which
\* they are applied, and what each match is replaced with
CleanPatterns ==
    << [kind |-> "round", f |-> "AVG", r |-> "ROUNDED_AVERAGE"],
       [kind |-> "round", f |-> "SUM", r |-> "ROUNDED_SUM"],
       [kind |-> "round", f |-> "COUNT", r |-> "ROUNDED_COUNT"],
       [kind |-> "call", f |-> "TO_DATE", r |-> "DATE_CONVERSION"],
       [kind |-> "call", f |-> "TO_CHAR", r |-> "CHAR_CONVERSION"],
       [kind |-> "call", f |-> "EXTRACT", r |-> "DATE_PART_EXTRACTION"],
       [kind |-> "nvl", f |-> "NVL", r |-> "NULL_VALUE_REPLACEMENT"],
       [kind |-> "call", f |-> "DECODE", r |-> "CONDITIONAL_LOGIC"],
       [kind |-> "alias", f |-> "COUNT", r |-> "AGGREGATE_WITH_ALIAS"],
       [kind |-> "alias", f |-> "AVG", r |-> "AVERAGE_WITH_ALIAS"],
       [kind |-> "alias", f |-> "SUM", r |-> "SUM_WITH_ALIAS"] >>

Digits == { "0", "1", "2" }

\* the index of the last token of the match of pat that starts at token i,
\* 0 when pat does not match there
MatchEnd(toks, i, pat) ==
    CASE pat.kind = "round" ->
            \* ROUND\s*\(\s*F\s*\([^)]+\)\s*,\s*\d+\s*\)
            IF UpperName(Tok(toks, i)) = "ROUND" /\ Tok(toks, i + 1) = "("
            THEN LET j == CallEnd(toks, i + 2, pat.f)
                 IN IF /\ j > 0
                       /\ Tok(toks, j + 1) = ","
                       /\ Tok(toks, j + 2) \in Digits
                       /\ Tok(toks, j + 3) = ")"
                    THEN j + 3 ELSE 0
            ELSE 0
      [] pat.kind = "call" -> CallEnd(toks, i, pat.f)
      [] pat.kind = "nvl" ->
            \* NVL\s*\([^,]+,\s*[^)]+\)
            IF UpperName(Tok(toks, i)) = "NVL" /\ Tok(toks, i + 1) = "("
            THEN LET c == IndexFrom(toks, ",", i + 2)
                     e == IndexFrom(toks, ")", c + 1)
                 IN IF c >= i + 3 /\ e >= c + 2 THEN e ELSE 0
            ELSE 0
      [] OTHER ->
            \* F\s*\([^)]+\)\s+\w+
            LET j == CallEnd(toks, i, pat.f)
            IN IF j > 0 /\ Tok(toks, j + 1) # None /\ IsName(Tok(toks, j + 1))
               THEN j + 1 ELSE 0

\* re.sub(pattern, replacement, cleaned, flags=re.IGNORECASE)
RECURSIVE ReSub(_, _, _)
ReSub(toks, i, pat) ==
    IF i > Len(toks) THEN << >>
    ELSE LET e == MatchEnd(toks, i, pat)
         IN IF e > 0 THEN << pat.r >> \o ReSub(toks, e + 1, pat)
            ELSE << toks[i] >> \o ReSub(toks, i + 1, pat)

\* _clean_expression: the patterns applied one after the other
RECURSIVE CleanFrom(_, _)
CleanFrom(toks, k) ==
    IF k > Len(CleanPatterns) THEN toks
    ELSE CleanFrom(ReSub(toks, 1, CleanPatterns[k]), k + 1)

_clean_expression(expression) == CleanFrom(expression, 1)

\* a name that is absent (None or the empty string)
NoName == << >>

ColumnExpression(expression, alias, source_alias, column_name) ==
    [expression |-> expression, alias |-> alias,
     source_alias |-> source_alias, column_name |-> column_name]

\* select_clause.split(','), each part stripped
RECURSIVE SplitCommas(_)
SplitCommas(toks) ==
    LET c == IndexFrom(toks, ",", 1)
    IN IF c = 0 THEN << toks >>
       ELSE << SubSeq(toks, 1, c - 1) >>
            \o SplitCommas(SubSeq(toks, c + 1, Len(toks)))

\* lines 607-640: one part of the select clause
RegexColumn(expr) ==
    LET n == Len(expr)
        \* ^(.+?)\s+AS\s+(\w+)$
        as_match == /\ n >= 3
                    /\ UpperName(expr[n - 1]) = "AS"
                    /\ IsName(expr[n])
                    /\ IsName(expr[n - 2]) \/ expr[n - 2] = ")"
        source_expr == IF as_match THEN SubSeq(expr, 1, n - 2) ELSE expr
        \* ^(\w+)\.(\w+)$
        table_col == /\ Len(source_expr) = 3
                     /\ IsName(source_expr[1])
                     /\ source_expr[2] = "."
                     /\ IsName(source_expr[3])
    IN ColumnExpression(expr,
                        IF as_match THEN expr[n] ELSE None,
                        IF table_col THEN source_expr[1] ELSE None,
                        IF table_col THEN << source_expr[3] >>
                        ELSE source_expr)

\* _extract_column_expressions_regex
_extract_column_expressions_regex(l) ==
    IF ClauseOf(l) = << "*" >> THEN << >>
    ELSE LET parts == SelectSeq(SplitCommas(ClauseOf(l)),
                                LAMBDA e : e # << >>)
         IN [n \in 1..Len(parts) |-> RegexColumn(parts[n])]

\* _extract_column_from_expression: expr.sql() writes the alias after AS;
\* only an expression that is a plain column has a column name
_extract_column_from_expression(e) ==
    LET plain == e.alias = None /\ e.body = << "x" >>
        qualified == e.alias = None /\ Len(e.body) = 3 /\ e.body[2] = "."
    IN ColumnExpression(
           e.body \o (IF e.alias = None THEN << >> ELSE << "AS", e.alias >>),
           e.alias,
           IF qualified THEN e.body[1] ELSE None,
           IF plain THEN e.body
           ELSE IF qualified THEN << e.body[3] >> ELSE NoName)

_extract_columns_from_ast(l) ==
    [n \in 1..Len(l) |-> _extract_column_from_expression(l[n])]

\* line 333: any(func in clean_expr.upper() for func in
\* ['ROUNDED_', 'DATE_CONVERSION', 'AGGREGATE_'])
IsRecognized(clean_expr) ==
    \E t \in Range(clean_expr) :
        t \in { "ROUNDED_AVERAGE", "ROUNDED_SUM", "ROUNDED_COUNT",
                "DATE_CONVERSION", "AGGREGATE_WITH_ALIAS" }

\* lines 327-348: the lineage entry of one column
LineageEntry(col) ==
    LET clean_expr == IF col.expression # << >>
                      THEN _clean_expression(col.expression)
                      ELSE col.column_name
    IN [source_expression |-> IF col.expression # << >>
                              THEN col.expression ELSE col.column_name,
        cleaned_expression |-> clean_expr,
        target_column |-> IF col.alias # None THEN << col.alias >>
                          ELSE IF col.column_name # NoName
                          THEN col.column_name ELSE << "unknown" >>,
        transformation_type |->
            IF clean_expr # << >> /\ clean_expr # col.column_name
            THEN IF IsRecognized(clean_expr) THEN "TRANSFORMED"
                 ELSE IF col.alias # None THEN "DERIVED" ELSE "COMPUTED"
            ELSE "DIRECT",
        source_alias |-> col.source_alias]

\* _extract_comprehensive_column_lineage on one statement
\* SELECT <list> FROM A: the columns of its semantics and their entries
_extract_comprehensive_column_lineage(l, has_sqlglot) ==
    LET columns == IF has_sqlglot THEN _extract_columns_from_ast(l)
                   ELSE _extract_column_expressions_regex(l)
    IN [columns |-> columns,
        r |-> [n \in 1..Len(columns) |-> LineageEntry(columns[n])]]

\* ======================================================================
\*  state
\* ======================================================================
VARIABLES
    file,               \* the items of the source file
    sqlglot,            \* _HAS_SQLGLOT
    connections,        \* self.connections (names, in dict order)
    parameters,         \* self.parameters
    validation_report,  \* self.validation_report
    pc,                 \* the generator returned by parse
    ops,                \* parse: ops
    opIdx,              \* parse: spans of ops done
    file_seen_assets,   \* parse: file_seen_assets
    file_created_tables,\* parse: file_created_tables
    yielded,            \* the batches the consumer received from this call
    calls,              \* calls of parse so far
    history,            \* the batches of every finished call
    oracle_type,        \* enrich_column_properties: oracle_type
    target_platforms,   \* enrich_column_properties: target_platforms
    enriched,           \* what enrich_column_properties returned
    files,              \* PlsqlLoader.ingest: files
    fileIdx,            \* ingest: the file whose parse is suspended
    ingested,           \* the batches the consumer received from ingest
    ipc,                \* the generator returned by ingest
    workers,            \* the threads that call parse on the shared parser
    written,            \* which thread has written which field of the parser
    requested,          \* __init__: the argument target_platforms
    enable_type_mapping,\* self.enable_type_mapping
    type_mapper,        \* self.type_mapper is a PLSQLDataTypeMapper
    parser_platforms,   \* self.target_platforms of the parser
    select_list,        \* the select list of the statement that is analysed
    column_lineage      \* what _extract_comprehensive_column_lineage returned

parseVars == << file, sqlglot, connections, parameters, validation_report,
                pc, ops, opIdx, file_seen_assets, file_created_tables,
                yielded, calls, history >>
typeVars == << oracle_type, target_platforms, enriched >>
loaderVars == << files, fileIdx, ingested, ipc >>
workerVars == << workers, written >>
ctorVars == << requested, enable_type_mapping, type_mapper,
              parser_platforms >>
lineageVars == << select_list, column_lineage >>
restVars == << typeVars, loaderVars, workerVars, ctorVars, lineageVars >>
vars == << parseVars, restVars >>

MaxCalls == 2

NoDecl == [w |-> << >>, s |-> << >>, pp |-> 0, p |-> << >>, open |-> FALSE]
NotEnriched == [done |-> FALSE]

TypeIdle ==
    /\ oracle_type = NoDecl
    /\ target_platforms = NotGiven
    /\ enriched = NotEnriched

\* lines 108-116: TargetPlatform(platform_str) is the member with that
\* value; the members of the known values are kept, in the order of the
\* list, and the ValueError of any other entry is caught and logged
ParsePlatformsKeepAll(xs) == xs
RECURSIVE _parse_target_platforms(_)
_parse_target_platforms(xs) ==
    IF xs = << >> THEN << >>
    ELSE IF Head(xs) \in TargetPlatform
    THEN << Head(xs) >> \o _parse_target_platforms(Tail(xs))
    ELSE _parse_target_platforms(Tail(xs))

\* line 85: target_platforms or ["sql_server", "postgresql"]
PlatformsFor(req) ==
    _parse_target_platforms(IF req = NotGiven \/ req = << >>
                            THEN << "sql_server", "postgresql" >> ELSE req)

\* a parser constructed with the default arguments
DefaultArguments ==
    /\ requested = NotGiven
    /\ enable_type_mapping = TRUE
    /\ type_mapper = TRUE
    /\ parser_platforms = PlatformsFor(NotGiven)

\* a parser as CanonicalPlsqlParser.__init__ leaves it, before any call
Constructed ==
    /\ sqlglot \in BOOLEAN
    /\ \E ctx \in { << << >>, << >> >>, << << "ORCL" >>, << "p_date" >> >> } :
          connections = ctx[1] /\ parameters = ctx[2]
    /\ validation_report =
          [total_files_processed |-> 0, fake_tables_rejected |-> 0,
           oracle_functions_rejected |-> 0, keyword_aliases_removed |-> 0]
    /\ pc = "idle"
    /\ ops = << >>
    /\ opIdx = 0
    /\ file_seen_assets = {}
    /\ file_created_tables = {}
    /\ yielded = << >>
    /\ calls = 0
    /\ history = << >>
    /\ TypeIdle
    /\ DefaultArguments

LoaderIdle ==
    /\ files = << >>
    /\ fileIdx = 0
    /\ ingested = << >>
    /\ ipc = "idle"

NoWorkers ==
    /\ workers = << >>
    /\ written = {}

NotExtracted == [done |-> FALSE]

NoLineage ==
    /\ select_list = << >>
    /\ column_lineage = NotExtracted

\* a parser and a file
Init == file \in Files /\ Constructed /\ LoaderIdle /\ NoWorkers
    /\ NoLineage

\* gen = parser.parse(path): nothing of the body runs yet
Parse ==
    /\ pc \in { "idle", "done" }
    /\ calls < MaxCalls
    /\ pc' = "created"
    /\ calls' = calls + 1
    /\ yielded' = << >>
    /\ UNCHANGED << file, sqlglot, connections, parameters, validation_report,
                    ops, opIdx, file_seen_assets, file_created_tables,
                    history, restVars >>

\* the file-level sets at the start of a call (lines 755-758)
FreshSetKeep(old) == old
FreshSet(old) == {}

\* the counters of validation_report (lines 745, 361, 367, 382 and 389)
Count(r, total) ==
    [total_files_processed |-> validation_report.total_files_processed + total,
     fake_tables_rejected |-> validation_report.fake_tables_rejected + r.fake,
     oracle_functions_rejected |->
         validation_report.oracle_functions_rejected + r.functions,
     keyword_aliases_removed |->
         validation_report.keyword_aliases_removed + r.keyword]

\* "for op_name, (start, end) in ops" (line 760): after i spans, is there
\* another one
HasNextShort(i, theOps) == i < Len(theOps) - 1
HasNext(i, theOps) == i < Len(theOps)

\* the loop body for span i, then the yield.  A batch is the two yielded
\* lists; raw_nodes and raw_edges (the lists nodes and edges before
\* validation and deduplication), semantics (the statements whose
\* semantics were appended to semantics_list), statements (what
\* _extract_sql_statements returned for the span), discarded (the number of
\* aliases the semantic analysis discarded as keywords), aliases (the alias
\* of every TableReference of those semantics), operation_subtype
\* (the property of that name of the Operation node, line 786) and op (the
\* index of the span) are kept for the properties.
Yield(i, r, total) ==
    /\ validation_report' = Count(r, total)
    /\ yielded' = Append(yielded,
                     [nodes |-> r.nodes, edges |-> r.edges,
                      raw_nodes |-> r.raw_nodes,
                      raw_edges |-> r.raw_edges,
                      semantics |-> r.semantics,
                      statements |-> r.statements,
                      aliases |-> r.aliases,
                      operation_subtype |-> r.operation_subtype,
                      discarded |-> r.discarded, op |-> i])
    /\ file_seen_assets' = r.seen
    /\ file_created_tables' = r.created
    /\ opIdx' = i
    /\ pc' = "suspended"
    /\ UNCHANGED history

YieldSpan(i, theOps, seen, created, total) ==
    Yield(i, RunSpan(file, theOps[i], seen, created, sqlglot, connections,
                     parameters), total)

Return ==
    /\ pc' = "done"
    /\ history' = Append(history, yielded)
    /\ UNCHANGED << yielded, opIdx, file_seen_assets, file_created_tables >>

\* the first next(gen): lines 741-758, then the first span or the return
\* of line 753
First ==
    /\ pc = "created"
    /\ LET theOps == DetectedSpans(file)
       IN /\ ops' = theOps
          /\ IF theOps = << >> \/ ~HasNext(0, theOps)
             THEN /\ Return
                  /\ validation_report' =
                        Count([fake |-> 0, functions |-> 0, keyword |-> 0], 1)
             ELSE YieldSpan(1, theOps, FreshSet(file_seen_assets),
                            FreshSet(file_created_tables), 1)
    /\ UNCHANGED << file, sqlglot, connections, parameters, calls, restVars >>

\* a later next(gen): the next span of the loop
Resume ==
    /\ pc = "suspended"
    /\ HasNext(opIdx, ops)
    /\ YieldSpan(opIdx + 1, ops, file_seen_assets, file_created_tables, 0)
    /\ UNCHANGED << file, sqlglot, connections, parameters, ops, calls,
                    restVars >>

\* a later next(gen) when the spans are exhausted: StopIteration
Finish ==
    /\ pc = "suspended"
    /\ ~HasNext(opIdx, ops)
    /\ Return
    /\ UNCHANGED << file, sqlglot, connections, parameters, validation_report,
                    ops, calls, restVars >>

\* lines 478-483: the counters of the parser, to which the counters of
\* sql_parser are added under other keys
get_validation_report == validation_report

Next == Parse \/ First \/ Resume \/ Finish

Spec == Init /\ [][Next]_vars

\* the same parser on the files of SemFiles
InitSem == file \in SemFiles /\ Constructed /\ LoaderIdle /\ NoWorkers
    /\ NoLineage
SpecSem == InitSem /\ [][Next]_vars

\* the same parser on the files of CallFiles
InitCalls == file \in CallFiles /\ Constructed /\ LoaderIdle /\ NoWorkers
    /\ NoLineage
SpecCalls == InitCalls /\ [][Next]_vars

\* ----------------------------------------------------------------------
\*  the type-mapping engine on its own: one call of
\*  enrich_column_properties on a declaration and a platform list
\* ----------------------------------------------------------------------
ParseIdle ==
    /\ file = << >>
    /\ sqlglot = FALSE
    /\ connections = << >>
    /\ parameters = << >>
    /\ validation_report =
          [total_files_processed |-> 0, fake_tables_rejected |-> 0,
           oracle_functions_rejected |-> 0, keyword_aliases_removed |-> 0]
    /\ pc = "idle"
    /\ ops = << >>
    /\ opIdx = 0
    /\ file_seen_assets = {}
    /\ file_created_tables = {}
    /\ yielded = << >>
    /\ calls = 0
    /\ history = << >>

InitTypes ==
    /\ ParseIdle
    /\ oracle_type \in Declarations
    /\ target_platforms \in PlatformLists
    /\ enriched = NotEnriched
    /\ LoaderIdle
    /\ NoWorkers
    /\ DefaultArguments
    /\ NoLineage

Enrich ==
    /\ ~enriched.done
    /\ enriched' = [done |-> TRUE,
                    r |-> enrich_column_properties(oracle_type,
                                                   target_platforms)]
    /\ UNCHANGED << parseVars, oracle_type, target_platforms, loaderVars,
                    workerVars, ctorVars,
                    lineageVars >>

NextTypes == Enrich

SpecTypes == InitTypes /\ [][NextTypes]_vars

\* ======================================================================
\*  plsql_parser.py : CanonicalPlsqlParser.__init__, then parse
\* ======================================================================

\* the argument target_platforms: None, or a list of identifiers, of which
\* db2 and SQL_SERVER name no platform: TargetPlatform is looked up by
\* value, and the value of SQL_SERVER is "sql_server"
RequestLists ==
    { NotGiven }
    \cup SeqsUpTo({ "sql_server", "postgresql", "db2", "SQL_SERVER" },
                  MaxPlatforms + 1)

\* CanonicalPlsqlParser(enable_type_mapping = ..., target_platforms = ...)
Construct ==
    /\ pc = "unbuilt"
    /\ pc' = "idle"
    /\ type_mapper' = enable_type_mapping
    /\ parser_platforms' = PlatformsFor(requested)
    /\ UNCHANGED << file, sqlglot, connections, parameters,
                    validation_report, ops, opIdx, file_seen_assets,
                    file_created_tables, yielded, calls, history, typeVars, lineageVars,
                    loaderVars, workerVars, requested, enable_type_mapping >>

NextConstruct == Construct \/ Parse \/ First \/ Resume \/ Finish

\* the arguments of a constructor call that has not run yet
InitConstruct ==
    /\ file \in SampleTexts
    /\ sqlglot \in BOOLEAN
    /\ connections = << >>
    /\ parameters = << >>
    /\ validation_report =
          [total_files_processed |-> 0, fake_tables_rejected |-> 0,
           oracle_functions_rejected |-> 0, keyword_aliases_removed |-> 0]
    /\ pc = "unbuilt"
    /\ ops = << >>
    /\ opIdx = 0
    /\ file_seen_assets = {}
    /\ file_created_tables = {}
    /\ yielded = << >>
    /\ calls = 0
    /\ history = << >>
    /\ TypeIdle
    /\ LoaderIdle
    /\ NoWorkers
    /\ requested \in RequestLists
    /\ enable_type_mapping \in BOOLEAN
    /\ type_mapper = FALSE
    /\ parser_platforms = << >>
    /\ NoLineage

SpecConstruct == InitConstruct /\ [][NextConstruct]_vars

\* ----------------------------------------------------------------------
\*  column lineage on its own: one call of
\*  _extract_comprehensive_column_lineage on a statement SELECT ... FROM A
\* ----------------------------------------------------------------------
InitLineage ==
    /\ file = << >>
    /\ Constructed
    /\ LoaderIdle
    /\ NoWorkers
    /\ select_list \in SelectLists
    /\ column_lineage = NotExtracted

ExtractLineage ==
    /\ ~column_lineage.done
    /\ column_lineage' =
          [done |-> TRUE,
           l |-> _extract_comprehensive_column_lineage(select_list, sqlglot)]
    /\ UNCHANGED << parseVars, typeVars, loaderVars, workerVars, ctorVars,
                    select_list >>

NextLineage == ExtractLineage

SpecLineage == InitLineage /\ [][NextLineage]_vars

\* ======================================================================
\*  plsql_loader.py : PlsqlLoader.ingest
\* ======================================================================

\* lines 48-57 and 78: the connection and parameter nodes of the loader
GlobalNodes(conns, params) ==
    [i \in 1..Len(conns) |->
        MkNode(<< "connection:", conns[i] >>, "connection", conns[i],
               NoTypeMapping, "")]
    \o [i \in 1..Len(params) |->
        MkNode(<< "parameter:", params[i] >>, "parameter", params[i],
               NoTypeMapping, "")]

\* lines 86-88: the exception of file i of n is logged and the loop goes
\* on with the next file
OnReadErrorStop(i, n) == n + 1
OnReadError(i, n) == i + 1

\* lines 82-88: the first file from i on whose parse yields a batch, or
\* Len(fs) + 1
RECURSIVE NextYieldingFile(_, _)
NextYieldingFile(fs, i) ==
    IF i > Len(fs) THEN i
    ELSE IF ~fs[i].readable
    THEN NextYieldingFile(fs, OnReadError(i, Len(fs)))
    ELSE IF DetectedSpans(fs[i].text) = << >>
    THEN NextYieldingFile(fs, i + 1)
    ELSE i

\* line 745 for the files i..j: only a file that was read is counted
ReadBetween(fs, i, j) ==
    Cardinality({ n \in i..Min2(j, Len(fs)) : fs[n].readable })

\* "yield from parser.parse(...)" (line 85) hands the batch r of span i of
\* file f to the consumer of ingest
PassOn(f, i, theOps, r, total) ==
    /\ validation_report' = Count(r, total)
    /\ ingested' = Append(ingested,
                      [file |-> f, op |-> i, nodes |-> r.nodes,
                       edges |-> r.edges])
    /\ file' = files[f].text
    /\ ops' = theOps
    /\ opIdx' = i
    /\ fileIdx' = f
    /\ file_seen_assets' = r.seen
    /\ file_created_tables' = r.created
    /\ ipc' = "suspended"

\* the files from fileIdx + 1 on, up to the first yield of the parse of
\* file f or to the end of the list
NextFiles(f) ==
    IF f > Len(files)
    THEN /\ ipc' = "done"
         /\ validation_report' =
               Count([fake |-> 0, functions |-> 0, keyword |-> 0],
                     ReadBetween(files, fileIdx + 1, Len(files)))
         /\ UNCHANGED << file, ops, opIdx, fileIdx, file_seen_assets,
                         file_created_tables, ingested >>
    ELSE PassOn(f, 1, DetectedSpans(files[f].text),
                RunSpan(files[f].text, DetectedSpans(files[f].text)[1], {},
                        {}, sqlglot, connections, parameters),
                ReadBetween(files, fileIdx + 1, f))

\* gen = loader.ingest(): nothing of the body runs yet
Ingest ==
    /\ ipc = "idle"
    /\ ipc' = "created"
    /\ UNCHANGED << parseVars, typeVars, lineageVars, workerVars, ctorVars, files, fileIdx,
                    ingested >>

\* next(gen): lines 36-80 on the first call, then the loop of lines 82-88
\* up to the next yield
IngestNext ==
    /\ ipc \in { "created", "suspended" }
    /\ IF ipc = "created" /\ GlobalNodes(connections, parameters) # << >>
       THEN /\ ingested' =
                  Append(ingested,
                      [file |-> 0, op |-> 0,
                       nodes |-> GlobalNodes(connections, parameters),
                       edges |-> << >>])
            /\ ipc' = "suspended"
            /\ UNCHANGED << file, ops, opIdx, fileIdx, file_seen_assets,
                            file_created_tables, validation_report >>
       ELSE IF fileIdx > 0 /\ HasNext(opIdx, ops)
       THEN PassOn(fileIdx, opIdx + 1, ops,
                RunSpan(file, ops[opIdx + 1], file_seen_assets,
                        file_created_tables, sqlglot, connections,
                        parameters),
                0)
       ELSE NextFiles(NextYieldingFile(files, fileIdx + 1))
    /\ UNCHANGED << sqlglot, connections, parameters, pc, yielded, calls,
                    history, typeVars, lineageVars, workerVars, ctorVars, files >>

NextIngest == Ingest \/ IngestNext

\* a loader over a list of discovered files
InitIngest ==
    /\ files \in FileLists
    /\ file = << >>
    /\ Constructed
    /\ fileIdx = 0
    /\ ingested = << >>
    /\ ipc = "idle"
    /\ NoWorkers
    /\ NoLineage

SpecIngest == InitIngest /\ [][NextIngest]_vars

\* ======================================================================
\*  threads that parse files on one shared CanonicalPlsqlParser
\* ======================================================================

\* line 745, first half: validation_report['total_files_processed'] is
\* read for the += 1
WLoad(w) ==
    /\ workers[w].pc = "start"
    /\ workers' = [workers EXCEPT
                     ![w].pc = "loaded",
                     ![w].tmp = validation_report.total_files_processed]
    /\ UNCHANGED << parseVars, typeVars, lineageVars, loaderVars, ctorVars, written >>

\* line 745, second half: the sum is stored; then lines 747-758
WStore(w) ==
    /\ workers[w].pc = "loaded"
    /\ validation_report' =
          [validation_report EXCEPT
             !.total_files_processed = workers[w].tmp + 1]
    /\ written' = written \cup { << "total_files_processed", w >> }
    /\ workers' = [workers EXCEPT
                     ![w].pc = IF DetectedSpans(workers[w].file) = << >>
                               THEN "done" ELSE "running",
                     ![w].ops = DetectedSpans(workers[w].file)]
    /\ UNCHANGED << file, sqlglot, connections, parameters, pc, ops, opIdx,
                    file_seen_assets, file_created_tables, yielded, calls,
                    history, typeVars, lineageVars, loaderVars, ctorVars >>

\* the thread w is yielded the batch r of its next span; the validation
\* of the batch has incremented counters of validation_report (lines 361,
\* 367, 382 and 389)
WYield(w, r) ==
    /\ validation_report' = Count(r, 0)
    /\ written' =
          written
          \cup { << g, w >> :
                  g \in { h \in { "fake_tables_rejected",
                                  "oracle_functions_rejected",
                                  "keyword_aliases_removed" } :
                            \/ h = "fake_tables_rejected" /\ r.fake > 0
                            \/ h = "oracle_functions_rejected"
                               /\ r.functions > 0
                            \/ h = "keyword_aliases_removed"
                               /\ r.keyword > 0 } }
    /\ workers' = [workers EXCEPT
                     ![w].pc = IF HasNext(workers[w].opIdx + 1,
                                          workers[w].ops)
                               THEN "running" ELSE "done",
                     ![w].opIdx = @ + 1,
                     ![w].seen = r.seen,
                     ![w].created = r.created,
                     ![w].batches = @ + 1]

\* one iteration of the loop of lines 760-1183 in the thread w
WSpan(w) ==
    /\ workers[w].pc = "running"
    /\ WYield(w, RunSpan(workers[w].file,
                         workers[w].ops[workers[w].opIdx + 1],
                         workers[w].seen, workers[w].created, sqlglot,
                         connections, parameters))
    /\ UNCHANGED << file, sqlglot, connections, parameters, pc, ops, opIdx,
                    file_seen_assets, file_created_tables, yielded, calls,
                    history, typeVars, lineageVars, loaderVars, ctorVars >>

NextWorkers == \E w \in 1..NumWorkers : WLoad(w) \/ WStore(w) \/ WSpan(w)

\* one parser, and for each thread, before its call of parse, a file;
\* batches counts what the thread was yielded
InitWorkers ==
    /\ file = << >>
    /\ Constructed
    /\ LoaderIdle
    /\ \E fs \in [1..NumWorkers -> SampleTexts] :
          workers = [w \in 1..NumWorkers |->
                       [pc |-> "start", tmp |-> 0, file |-> fs[w],
                        ops |-> << >>, opIdx |-> 0, seen |-> {},
                        created |-> {}, batches |-> 0]]
    /\ written = {}
    /\ NoLineage

SpecWorkers == InitWorkers /\ [][NextWorkers]_vars

\* ======================================================================
\*  properties
\* ======================================================================

\* C1: in every batch, a table name of the span that is both named after
\* FROM and named after INSERT INTO, UPDATE or MERGE INTO gets a WritesTo
\* edge from the span's Operation node and no ReadsFrom edge.
C1_WriteWins ==
    \A i \in 1..Len(yielded) :
        LET b == yielded[i]
            block == BlockOf(file, ops[b.op])
            op_id == OpId(ActualOpName(block, ops[b.op]))
        IN \A t \in _extract_tables_from_select(block) \cap DmlWrites(block) :
              /\ \E k \in 1..Len(b.edges) :
                    b.edges[k] = MkEdge(op_id, TableId(t), "WRITES_TO")
              /\ \A k \in 1..Len(b.edges) :
                    ~(/\ b.edges[k].target_id = TableId(t)
                      /\ b.edges[k].relation = "READS_FROM")

\* C2: once a Table node with a type_mapping block has been emitted for a
\* CREATE TABLE statement, no Table node emitted later for the same file
\* (later in the same span or in a later span) with the same node_id lacks
\* that block or is a "referenced" stub.
C2_TypeMappingLocked ==
    LET em == Flatten([i \in 1..Len(yielded) |-> yielded[i].raw_nodes])
    IN \A a, b \in 1..Len(em) :
          (/\ a < b
           /\ em[a].node_type = "table" /\ em[a].tm.has
           /\ em[b].node_type = "table" /\ em[b].node_id = em[a].node_id)
          => (em[b].tm = em[a].tm /\ em[b].src # "referenced")

\* a typed Table node was emitted and its table is named after FROM by a
\* later statement of the same span
C2_Witness ==
    \E i \in 1..Len(yielded) :
        LET block == BlockOf(file, ops[yielded[i].op])
        IN \E k \in 1..Len(yielded[i].raw_nodes) :
              LET n == yielded[i].raw_nodes[k]
              IN /\ n.node_type = "table" /\ n.tm.has
                 /\ \E a, b \in 1..Len(block) :
                       /\ a < b
                       /\ block[a].k = "create" /\ block[a].t = n.name
                       /\ block[b].k \in { "select", "insert" }
                       /\ block[b].f = n.name

\* C3: no batch holds a Table node whose name is empty, starts with "(" or
\* is an Oracle built-in function, nor an edge with such a table as an
\* endpoint.
C3_NoFakeTables ==
    LET Bad(name) == name = "" \/ name = "(" \/ _is_oracle_function(name)
        BadId(id) == id[1] = "table" /\ Bad(id[2])
    IN \A i \in 1..Len(yielded) :
          /\ \A k \in 1..Len(yielded[i].nodes) :
                yielded[i].nodes[k].node_type = "table"
                => ~Bad(yielded[i].nodes[k].name)
          /\ \A k \in 1..Len(yielded[i].edges) :
                /\ ~BadId(yielded[i].edges[k].source_id)
                /\ ~BadId(yielded[i].edges[k].target_id)

\* C4: for a SELECT of the span that joins table A to table B on an
\* equality, the batch holds exactly one References edge from A to B.
C4_OneReferencesEdge ==
    \A i \in 1..Len(yielded) :
        LET b == yielded[i]
            block == BlockOf(file, ops[b.op])
        IN \A n \in 1..Len(block) :
              (block[n].k = "select" /\ block[n].j # None)
              => Cardinality({ k \in 1..Len(b.edges) :
                     b.edges[k] = MkEdge(TableId(block[n].f),
                                         TableId(block[n].j),
                                         "REFERENCES") }) = 1

\* C5: two complete calls of parse on the same file with the same parser
\* instance yield, batch by batch, the same set of node identities and the
\* same set of edge identities.
C5_Idempotent ==
    Len(history) >= 2
    => /\ Len(history[1]) = Len(history[2])
       /\ \A i \in 1..Len(history[1]) :
             /\ { NodeKey(n) : n \in Range(history[1][i].nodes) }
                = { NodeKey(n) : n \in Range(history[2][i].nodes) }
             /\ { EdgeKey(e) : e \in Range(history[1][i].edges) }
                = { EdgeKey(e) : e \in Range(history[2][i].edges) }

\* two calls have completed and the first one yielded a Table node
C5_Witness ==
    /\ Len(history) = 2
    /\ \E i \in 1..Len(history[1]) :
          \E n \in Range(history[1][i].nodes) : n.node_type = "table"

\* C6: two spans of differently named procedures of a file never yield
\* Operation nodes (the node the pipeline Contains for the span) with the
\* same (node_id, node_type).
C6_DistinctOperationIds ==
    LET SpanOps(b) ==
            { NodeKey(n) : n \in { m \in Range(b.nodes) :
                /\ m.node_type = "operation"
                /\ \E e \in Range(b.edges) :
                      e.relation = "CONTAINS" /\ e.target_id = m.node_id } }
    IN \A i, j \in 1..Len(yielded) :
          (i # j /\ ops[yielded[i].op].name # ops[yielded[j].op].name)
          => SpanOps(yielded[i]) \cap SpanOps(yielded[j]) = {}

\* C7: parsing the file that is only
\*   CREATE TABLE T (id NUMBER(10), name VARCHAR2(50));
\* yields one batch with one Table node T whose type_mapping block lists
\* two columns, id of canonical type Decimal and name of canonical type
\* Varchar, with mapping confidence 1.0.
C7_CreateTableScenario ==
    (/\ pc = "done"
     /\ file = << Item("create", "T", None, None, FALSE, ColsScenario,
                       FALSE) >>)
    => /\ Len(yielded) = 1
       /\ LET ts == SelectSeq(yielded[1].nodes,
                              LAMBDA n : n.node_type = "table")
          IN /\ Len(ts) = 1
             /\ ts[1].name = "T"
             /\ ts[1].tm.has
             /\ Len(ts[1].tm.columns) = 2
             /\ ts[1].tm.columns[1].column_name = "id"
             /\ ts[1].tm.columns[1].canonical_type = "DECIMAL"
             /\ ts[1].tm.columns[2].column_name = "name"
             /\ ts[1].tm.columns[2].canonical_type = "VARCHAR"
             /\ ts[1].tm.sum = ConfFull * 2

\* C8: a declaration whose canonical type is Unknown gets confidence
\* exactly 0.3, whatever the target platforms and the declared length.
C8_UnknownTypeConfidence ==
    (enriched.done /\ enriched.r.canonical_type = "UNKNOWN")
    => enriched.r.conversion_confidence = ConfUnknownType

\* an unknown type with a declared length above 4000 was enriched for a
\* non-empty platform list, none of which maps it
C8_Witness ==
    /\ enriched.done
    /\ enriched.r.canonical_type = "UNKNOWN"
    /\ oracle_type.p = << 4001 >>
    /\ target_platforms \notin { NotGiven, << >> }
    /\ \A i \in 1..Len(enriched.r.target_types) :
          enriched.r.target_types[i].type.t = "unknown"

\* C9: a declaration whose canonical type is Rowid, Urowid, RefCursor or
\* Interval gets a confidence of at most 0.7, the empty platform list
\* included.
C9_OracleSpecificCap ==
    (/\ enriched.done
     /\ enriched.r.canonical_type
            \in { "ROWID", "UROWID", "REF_CURSOR", "INTERVAL" })
    => enriched.r.conversion_confidence <= ConfOracleSpecific

\* C10: the generator yields one batch per detected span, in span order,
\* and is exhausted exactly when every span has been yielded.
C10_OneBatchPerSpan ==
    /\ Len(yielded) <= Len(DetectedSpans(file))
    /\ \A i \in 1..Len(yielded) : yielded[i].op = i
    /\ pc = "done" => Len(yielded) = Len(DetectedSpans(file))
    /\ pc = "suspended" => Len(yielded) >= 1

\* a call over a file of several spans has run to exhaustion
C10_Witness ==
    /\ pc = "done"
    /\ Len(DetectedSpans(file)) >= 2
    /\ Len(yielded) = Len(DetectedSpans(file))

\* C11: span detection.  With one or more procedure or function headers
\* there is one span per header, in order, named after it and running from
\* the header to the end of the text; without a header, a bare BEGIN or a
\* DML/DDL keyword pattern (FROM, INSERT INTO, UPDATE, MERGE INTO,
\* CREATE TABLE) makes the whole file one anonymous span; otherwise there
\* is no span and parse yields nothing.
C11_SpanDetection ==
    pc \in { "suspended", "done" }
    => LET headers == { i \in 1..Len(file) : file[i].k = "proc" }
           keyword == \E i \in 1..Len(file) :
                         file[i].k \in { "begin", "select", "insert",
                                         "update", "merge", "create" }
       IN IF headers # {}
          THEN /\ Len(ops) = Cardinality(headers)
               /\ \A i \in 1..Len(ops) :
                     /\ ops[i].start \in headers
                     /\ ops[i].name = file[ops[i].start].t
                     /\ ops[i].end = Len(file)
                     /\ \A j \in 1..(i - 1) : ops[j].start < ops[i].start
          ELSE IF keyword
          THEN /\ Len(ops) = 1
               /\ ops[1].name = "anonymous_block"
               /\ ops[1].start = 1 /\ ops[1].end = Len(file)
          ELSE ops = << >> /\ yielded = << >> /\ pc = "done"

\* a file with two headers, the first of them after another statement,
\* has been parsed to the end
C11_Witness ==
    /\ pc = "done"
    /\ Len(ops) = 2
    /\ ops[1].start = 2
    /\ file[1].k # "proc"

\* C12: every batch yielded by parse holds the Operation node of its span,
\* the Pipeline node of the file (with the same node_id in every batch of
\* the file) and a Contains edge from that Pipeline node to that Operation
\* node; validation and deduplication remove none of the three.
C12_BatchHasOperationAndPipeline ==
    \A n \in 1..Len(yielded) :
       LET b == yielded[n]
           op == ops[b.op]
           name == ActualOpName(BlockOf(file, op), op)
       IN /\ \E o \in Range(b.nodes) :
                /\ o.node_type = "operation"
                /\ o.node_id = OpId(name)
                /\ o.name = name
          /\ \E p \in Range(b.nodes) :
                p.node_type = "pipeline" /\ p.node_id = PipelineId
          /\ MkEdge(PipelineId, OpId(name), "CONTAINS") \in Range(b.edges)
          /\ \A m \in 1..Len(yielded) :
                \A p \in Range(b.nodes), q \in Range(yielded[m].nodes) :
                   p.node_type = "pipeline" /\ q.node_type = "pipeline"
                   => p.node_id = q.node_id

\* two batches, in the second of which deduplication merged two edges
\* that had passed validation
C12_Witness ==
    /\ Len(yielded) = 2
    /\ Len(yielded[2].edges)
          < Len(SelectSeq(yielded[2].raw_edges,
                          _validate_edge_for_serialization))

\* C13: every batch yielded by parse is internally deduplicated: it holds
\* at most one node per identity (node_id, node_type) and at most one edge
\* per identity (source_id, target_id, relation).
C13_BatchDeduplicated ==
    \A n \in 1..Len(yielded) :
       LET b == yielded[n]
       IN /\ \A i, j \in 1..Len(b.nodes) :
                /\ b.nodes[i].node_id = b.nodes[j].node_id
                /\ b.nodes[i].node_type = b.nodes[j].node_type
                => i = j
          /\ \A i, j \in 1..Len(b.edges) :
                /\ b.edges[i].source_id = b.edges[j].source_id
                /\ b.edges[i].target_id = b.edges[j].target_id
                /\ b.edges[i].relation = b.edges[j].relation
                => i = j

\* a finished call with a batch whose list of edges held the same identity
\* twice before line 1181
C13_Witness ==
    /\ pc = "done"
    /\ \E n \in 1..Len(yielded) :
          \E i, j \in 1..Len(yielded[n].raw_edges) :
             /\ i < j
             /\ yielded[n].raw_edges[i] = yielded[n].raw_edges[j]
             /\ _validate_edge_for_serialization(yielded[n].raw_edges[i])

\* C14: when the semantic analysis of an extracted statement fails inside
\* parse, that statement contributes no semantics to the operation, no
\* exception leaves parse, every remaining statement of the span is still
\* processed, the batch of the span is yielded and so is the batch of every
\* remaining span: the semantics of each batch are those of exactly the
\* statements of its span whose analysis did not fail and found a table,
\* a batch without semantics has no References edge, and a finished call
\* has yielded one batch per span.
C14_FailedStatementSkipped ==
    /\ \A n \in 1..Len(yielded) :
          LET b == yielded[n]
              stmts == _extract_sql_statements(BlockOf(file, ops[b.op]),
                                               sqlglot)
          IN /\ \A s \in Range(b.semantics) : ~s.raises
             /\ b.semantics =
                   SelectSeq(stmts, LAMBDA s :
                       /\ ~s.raises
                       /\ parse_sql_semantics(s, sqlglot).tables # << >>)
             /\ b.semantics = << >>
                   => \A e \in Range(b.edges) : e.relation # "REFERENCES"
    /\ pc = "done" => Len(yielded) = Len(ops)

\* a finished call on a file of two spans: in the first span the analysis
\* of a statement failed and that of a later statement gave semantics
C14_Witness ==
    /\ pc = "done"
    /\ Len(yielded) = 2
    /\ yielded[1].semantics # << >>
    /\ LET stmts == _extract_sql_statements(BlockOf(file, ops[1]), sqlglot)
       IN \E i, j \in 1..Len(stmts) :
             i < j /\ stmts[i].raises /\ ~stmts[j].raises

\* C15: in PlsqlLoader.ingest a file of the list that cannot be read gives
\* no batch and no exception to the consumer, and every later file is still
\* parsed and its batches yielded: no batch ever belongs to an unreadable
\* file, the batches come in the order of the list, and when ingest is
\* exhausted every readable file has given one batch per span.
C15_UnreadableFileSkipped ==
    /\ \A n \in 1..Len(ingested) :
          /\ ingested[n].file > 0 => files[ingested[n].file].readable
          /\ \A m \in 1..(n - 1) : ingested[m].file <= ingested[n].file
    /\ ipc = "done"
       => \A f \in 1..Len(files) :
             files[f].readable
             => Len(SelectSeq(ingested, LAMBDA b : b.file = f))
                   = Len(DetectedSpans(files[f].text))

\* ingest is exhausted on a list whose second file could not be read: the
\* consumer has batches of the first file and of the third
C15_Witness ==
    /\ ipc = "done"
    /\ Len(files) = 3
    /\ ~files[2].readable
    /\ \E m, n \in 1..Len(ingested) :
          ingested[m].file = 1 /\ ingested[n].file = 3

\* the aliases discarded as keywords during the batches bs
RECURSIVE DiscardedIn(_)
DiscardedIn(bs) ==
    IF bs = << >> THEN 0 ELSE Head(bs).discarded + DiscardedIn(Tail(bs))

\* C16: after the files are processed, the keyword-alias counter of the
\* report of get_validation_report equals the number of table aliases that
\* were discarded, while the files were processed, for being a reserved SQL
\* keyword.
C16_KeywordAliasesCounted ==
    pc = "done"
    => get_validation_report.keyword_aliases_removed
          = DiscardedIn(Flatten(history))

\* C17: the state of the parser is local to a file.  When threads parse
\* files on one shared parser, no field of the parser is written by two of
\* them, and no update is lost: when all of them are through,
\* total_files_processed is the number of files parsed.
C17_FileLocalState ==
    /\ \A x, y \in written : x[1] = y[1] => x[2] = y[2]
    /\ (\A w \in 1..NumWorkers : workers[w].pc = "done")
       => validation_report.total_files_processed = NumWorkers

\* C18: a parser constructed with enable_type_mapping = False attaches no
\* type_mapping block to any Table node.
C18_NoTypeMappingWhenDisabled ==
    ~enable_type_mapping
    => \A n \in 1..Len(yielded) :
          \A x \in Range(yielded[n].nodes) :
             x.node_type = "table" => ~x.tm.has

\* C19: constructing the parser with a list of target platforms that holds
\* unknown identifiers does not fail, and the platforms of the parser are
\* exactly the known identifiers of the list, in the order of the list.
C19_UnknownPlatformsDropped ==
    /\ pc # "unbuilt"
    /\ requested # NotGiven
    /\ \E i \in 1..Len(requested) : requested[i] \notin TargetPlatform
    => /\ \A i \in 1..Len(parser_platforms) :
             parser_platforms[i] \in TargetPlatform
       /\ parser_platforms
             = SelectSeq(requested, LAMBDA x : x \in TargetPlatform)

\* a parser constructed for an unknown identifier followed by two known
\* ones that are not in the order of the enumeration
C19_Witness ==
    /\ pc = "idle"
    /\ Len(requested) = 3
    /\ requested[1] \notin TargetPlatform
    /\ parser_platforms = << "postgresql", "sql_server" >>

\* C20: for every extracted statement of the form
\* SELECT <list> INTO <target> FROM <rest>, on the AST path and on the
\* regex path, _extract_sql_statements returns SELECT <list> FROM <rest>:
\* the INTO clause is gone and the select list, the word FROM and the rest
\* of the statement are kept.
C20_IntoRemoved ==
    \A n \in 1..Len(yielded) :
       \A i \in 1..Len(yielded[n].statements) :
          LET st == yielded[n].statements[i]
              into == IndexFrom(st.piece, "INTO", 3)
          IN st.piece[1] = "SELECT" /\ into # 0
             => st.text = SubSeq(st.piece, 1, into - 1)
                          \o SubSeq(st.piece, into + 2, Len(st.piece))

\* C21: the operation_subtype of the Operation node of every batch is
\* EXECUTE for a span with a procedure or function header, else DATA_FLOW
\* for a span with a MERGE, else EXECUTE for a span with a CREATE TABLE,
\* else DATA_FLOW for a span with an INSERT, an UPDATE or a SELECT (so
\* also for a span whose only statement is an UPDATE or an INSERT without
\* SELECT), else EXECUTE.
C21_OperationSubtype ==
    \A i \in 1..Len(yielded) :
        LET block == BlockOf(file, ops[yielded[i].op])
            kinds == { block[n].k : n \in 1..Len(block) }
        IN yielded[i].operation_subtype =
              IF "proc" \in kinds THEN "EXECUTE"
              ELSE IF "merge" \in kinds THEN "DATA_FLOW"
              ELSE IF "create" \in kinds THEN "EXECUTE"
              ELSE IF kinds \cap { "insert", "update", "select" } # {}
              THEN "DATA_FLOW"
              ELSE "EXECUTE"

\* C22: for every CREATE TABLE statement of the file,
\* detect_column_types_from_sql returns exactly one entry, in order, for
\* every column definition of the whole parenthesized list (split at the
\* commas outside parentheses) that is not a constraint, also when the
\* types carry parenthesized parameters.
C22_WholeColumnList ==
    \A n \in 1..Len(file) :
        file[n].k = "create" =>
            LET expected ==
                    SelectSeq(SplitColumns(file[n].cols \o << "," >>,
                                  [defs |-> << >>, cur |-> << >>,
                                   depth |-> 0]),
                              LAMBDA d : ~IsConstraintDef(d))
                got == detect_column_types_from_sql(
                           file[n].cols \o << ")" >>)
            IN /\ Len(got) = Len(expected)
               /\ \A i \in 1..Len(got) :
                     got[i].column_name = expected[i][1]

\* C23: get_canonical_type of a declaration of a base type (the type
\* alone, with parameters, or followed by modifiers) returns what the
\* Oracle-to-canonical table gives for that base type, the multi-word keys
\* included, and Unknown when the base type is not a key.
C23_CanonicalLookup ==
    enriched.done =>
        \A b \in BaseTypes, m \in Modifiers, sep \in { "sp", "nl" },
           ps \in ParamLists :
            oracle_type = MkDecl(b, m, sep, ps) =>
                LET key == [i \in 1..Len(b) |-> Upper(b[i])]
                IN enriched.r.canonical_type =
                      IF key \in DOMAIN PlsqlToCanonical
                      THEN PlsqlToCanonical[key] ELSE "UNKNOWN"

\* C24: every platform type of an enriched declaration is the template of
\* its (canonical type, platform) pair, "unknown" when the pair has none,
\* in which each of {length}, {precision} and {scale} is replaced by the
\* parsed value whenever there is one, the value 0 included.
C24_PlaceholdersReplaced ==
    enriched.done =>
        \A i \in 1..Len(enriched.r.target_types) :
            LET ti == enriched.r.parsed_type_info
                tt == enriched.r.target_types[i]
                tp == PlatformTemplate(enriched.r.canonical_type, tt.platform)
            IN /\ tt.type.t = tp.t
               /\ (tp.l /\ ti.length # NoValue) => tt.type.l = ti.length
               /\ (tp.p /\ ti.precision # NoValue)
                     => tt.type.p = ti.precision
               /\ (tp.s /\ ti.scale # NoValue) => tt.type.s = ti.scale

C27_InlineViewLineage ==
    sqlglot =>
        \A i \in 1..Len(yielded) :
            \A n \in 1..Len(yielded[i].semantics) :
                LET st == yielded[i].semantics[n]
                IN (st.view /\ st.ast /\ ~st.mangled) =>
                      \E e \in Range(yielded[i].edges) :
                          /\ e.source_id = TableId(st.f)
                          /\ e.target_id = TableId(st.j)
                          /\ e.relation = "REFERENCES"

\* the patterns of _clean_expression that stand for an aggregate, a date
\* conversion or a null replacement
LineagePatterns ==
    { pat \in Range(CleanPatterns) :
        pat.r \notin { "CHAR_CONVERSION", "CONDITIONAL_LOGIC" } }

HasLineagePattern(expression) ==
    \E pat \in LineagePatterns :
        \E i \in 1..Len(expression) : MatchEnd(expression, i, pat) > 0

\* C28: a column-lineage entry is Direct when its cleaned expression is the
\* raw column name; otherwise it is Transformed whenever its expression
\* holds an aggregate, date or null-handling pattern, and Derived or
\* Computed only when it holds none.
C28_TransformationType ==
    column_lineage.done =>
        \A n \in 1..Len(column_lineage.l.r) :
            LET e == column_lineage.l.r[n]
                col == column_lineage.l.columns[n]
            IN IF e.cleaned_expression = col.column_name
               THEN e.transformation_type = "DIRECT"
               ELSE /\ HasLineagePattern(e.source_expression)
                          => e.transformation_type = "TRANSFORMED"
                    /\ e.transformation_type \in { "DERIVED", "COMPUTED" }
                          => ~HasLineagePattern(e.source_expression)

\* C29: within one call of parse a Table node of a given id is in at most
\* one batch; a later span of the file only adds edges that point to it.
C29_TableNodeOnce ==
    \A i, j \in 1..Len(yielded) :
        i < j =>
           \A n \in Range(yielded[i].nodes) :
              \A m \in Range(yielded[j].nodes) :
                 (n.node_type = "table" /\ m.node_type = "table")
                    => n.node_id # m.node_id

\* two spans of one file use the same table: the first batch has its node,
\* the second one only an edge to it
C29_Witness ==
    /\ pc = "done"
    /\ \E i, j \in 1..Len(yielded) :
          /\ i < j
          /\ \E n \in Range(yielded[i].nodes) :
                /\ n.node_type = "table"
                /\ \E e \in Range(yielded[j].edges) :
                      e.target_id = n.node_id \/ e.source_id = n.node_id
                /\ \A m \in Range(yielded[j].nodes) : m.node_id # n.node_id

\* the Table nodes of the batches 1..i of the call
TableNodesUpTo(i) ==
    { n.node_id : n \in { m \in UNION { Range(yielded[k].nodes) : k \in 1..i } :
                            m.node_type = "table" } }

====
